---- MODULE Spec2Model ----
(***************************************************************************)
(* A model of the WAD archive reader (src/src/wad.cpp) and of the texture  *)
(* compositor (src/src/wad-converter.cpp, src/src/wad-renderer.cpp).       *)
(*                                                                         *)
(* Names are sequences of character codes (ASCII), so that trimming,       *)
(* strnlen, isdigit and the printable-range test are computed as the code  *)
(* computes them.  Directory indices are the code's 0-based indices; the   *)
(* entry with index i is directory[i + 1].                                 *)
(***************************************************************************)
EXTENDS Integers, Sequences, FiniteSets, TLC

VARIABLES
  directory,   \* WAD::directory_ : sequence of [name, filepos, size]
  levels,      \* WAD::levels_    : sequence of Level
  file,        \* the archive file on disk, as far as the reader looks at it
  wad,         \* the WAD object under construction / constructed
  textures,    \* the texture stores (OkTextureHandler, WADRenderer::textureCache)
  ret          \* the last call: its operation, arguments and outcome

vars == <<directory, levels, file, wad, textures, ret>>

(***************************************************************************)
(* Characters and names                                                    *)
(***************************************************************************)
NUL == 0
SP == 32
NameLen == 8

\* A name field of NameLen bytes: the content followed by a padding byte.
Pad(s, c) == s \o [i \in 1..(NameLen - Len(s)) |-> c]

nVERTEXES == <<86, 69, 82, 84, 69, 88, 69, 83>>
nLINEDEFS == <<76, 73, 78, 69, 68, 69, 70, 83>>
nSIDEDEFS == <<83, 73, 68, 69, 68, 69, 70, 83>>
nSECTORS  == <<83, 69, 67, 84, 79, 82, 83>>
nTHINGS   == <<84, 72, 73, 78, 71, 83>>
nE1M1     == <<69, 49, 77, 49>>
nMAP01    == <<77, 65, 80, 48, 49>>
nEXM1     == <<69, 88, 77, 49>>
nPNAMES   == <<80, 78, 65, 77, 69, 83>>
nMAP      == <<77, 65, 80>>

\* strnlen(s, n): the number of bytes before the first NUL, at most n.
strnlen(s, n) ==
  LET lim == IF Len(s) < n THEN Len(s) ELSE n
      nuls == {i \in 1..lim : s[i] = NUL}
  IN IF nuls = {} THEN lim ELSE (CHOOSE i \in nuls : \A j \in nuls : i <= j) - 1

\* while (!s.empty() && s.back() is in pad) s.pop_back();
RECURSIVE PopBack(_, _)
PopBack(s, pad) ==
  IF s # <<>> /\ s[Len(s)] \in pad THEN PopBack(SubSeq(s, 1, Len(s) - 1), pad) ELSE s

\* while (!s.empty() && s.front() is in pad) s.erase(0, 1);
RECURSIVE EraseFront(_, _)
EraseFront(s, pad) ==
  IF s # <<>> /\ s[1] \in pad THEN EraseFront(Tail(s), pad) ELSE s

isdigit(c) == c >= 48 /\ c <= 57

\* The "clean the name first" loop of isLevelMarker: stop at the first NUL,
\* keep printable ASCII only.
RECURSIVE CleanName(_, _)
CleanName(name, i) ==
  IF i > Len(name) \/ name[i] = NUL THEN <<>>
  ELSE (IF name[i] >= 32 /\ name[i] <= 126 THEN <<name[i]>> ELSE <<>>)
       \o CleanName(name, i + 1)

\* isLevelMarker without its second test: MAPxx names are not recognised.
isLevelMarker_Doom1Only(name) ==
  LET cleanName == PopBack(CleanName(name, 1), {SP})
  IN /\ Len(cleanName) = 4
     /\ cleanName[1] = 69
     /\ cleanName[3] = 77
     /\ isdigit(cleanName[2])
     /\ isdigit(cleanName[4])

isLevelMarker(name) ==
  LET cleanName == PopBack(CleanName(name, 1), {SP})
  IN \/ /\ Len(cleanName) = 4
        /\ cleanName[1] = 69
        /\ cleanName[3] = 77
        /\ isdigit(cleanName[2])
        /\ isdigit(cleanName[4])
     \/ /\ Len(cleanName) = 5
        /\ SubSeq(cleanName, 1, 3) = nMAP
        /\ isdigit(cleanName[4])
        /\ isdigit(cleanName[5])

(***************************************************************************)
(* WAD::findLump                                                           *)
(***************************************************************************)
LevelScopedNames == {nVERTEXES, nLINEDEFS, nSIDEDEFS, nSECTORS, nTHINGS}

NotFound == [found |-> FALSE, index |-> -1, offset |-> -1, size |-> -1]

RECURSIVE findLumpFrom(_, _, _, _)
findLumpFrom(dir, name, startIndex, i) ==
  IF i >= Len(dir) THEN NotFound
  ELSE LET lumpName == SubSeq(dir[i + 1].name, 1, strnlen(dir[i + 1].name, NameLen))
       IN IF name \in LevelScopedNames /\ i > startIndex /\ isLevelMarker(lumpName)
          THEN NotFound
          ELSE IF lumpName = name
               THEN [found |-> TRUE, index |-> i,
                     offset |-> dir[i + 1].filepos, size |-> dir[i + 1].size]
               ELSE findLumpFrom(dir, name, startIndex, i + 1)

findLump(dir, name, startIndex) == findLumpFrom(dir, name, startIndex, startIndex)

(***************************************************************************)
(* The directory of a constructed archive                                  *)
(***************************************************************************)
MaxDir == 3

\* Record sizes: sizeof(Vertex), sizeof(Thing), sizeof(Linedef),
\* sizeof(Sector), sizeof(Sidedef).
VertexSize == 4
ThingSize == 10
LinedefSize == 14
SectorSize == 26
SidedefSize == 30

HeaderSize == 12
DirEntrySize == 16

\* The size a well-formed lump of one record has, by the lump's name.
OneRecord(field) ==
  LET n == SubSeq(field, 1, strnlen(field, NameLen))
      t == PopBack(n, {SP})
  IN IF t = nVERTEXES THEN VertexSize
     ELSE IF t = nLINEDEFS THEN LinedefSize
     ELSE IF t = nSIDEDEFS THEN SidedefSize
     ELSE IF t = nSECTORS THEN SectorSize
     ELSE IF t = nTHINGS THEN ThingSize
     ELSE 0

RECURSIVE SumSizes(_, _)
SumSizes(fields, n) == IF n = 0 THEN 0 ELSE SumSizes(fields, n - 1) + OneRecord(fields[n])

\* Lumps are laid out one after the other behind the header.
Layout(fields) ==
  [i \in 1..Len(fields) |->
     [name |-> fields[i],
      filepos |-> HeaderSize + SumSizes(fields, i - 1),
      size |-> OneRecord(fields[i])]]

SeqsUpTo(S, n) == UNION {[1..k -> S] : k \in 0..n}

\* Name fields of the lookups' directories.
FindFields ==
  { Pad(nE1M1, NUL), Pad(nMAP01, NUL), Pad(nEXM1, NUL),
    nVERTEXES, Pad(nSECTORS, NUL),
    Pad(nTHINGS, NUL), Pad(nTHINGS, SP), Pad(nPNAMES, NUL), Pad(nPNAMES, SP) }

FindNames == {nVERTEXES, nSECTORS, nTHINGS, nPNAMES}

Idle == [op |-> "none"]

InitFind ==
  /\ directory \in {Layout(f) : f \in SeqsUpTo(FindFields, MaxDir)}
  /\ levels = <<>>
  /\ file = Idle
  /\ wad = Idle
  /\ textures = Idle
  /\ ret = Idle

\* A call findLump(name, offset, size, startIndex).
FindLump(name, startIndex) ==
  /\ ret' = [op |-> "findLump", name |-> name, startIndex |-> startIndex,
             res |-> findLump(directory, name, startIndex)]
  /\ UNCHANGED <<directory, levels, file, wad, textures>>

NextFind == \E name \in FindNames, startIndex \in 0..Len(directory) : FindLump(name, startIndex)

SpecFind == InitFind /\ [][NextFind]_vars

(***************************************************************************)
(* What the specification calls a trimmed name and a level marker          *)
(***************************************************************************)
\* The 8-byte field with its trailing spaces and NULs removed.
TrimmedEnd(s) ==
  LET keep == {i \in 1..Len(s) : s[i] \notin {NUL, SP}}
  IN IF keep = {} THEN <<>>
     ELSE SubSeq(s, 1, CHOOSE i \in keep : \A j \in keep : j <= i)

\* The marker grammar: 'E' digit 'M' digit, or "MAP" digit digit.
MarkerGrammar(t) ==
  \/ Len(t) = 4 /\ t[1] = 69 /\ t[2] \in 48..57 /\ t[3] = 77 /\ t[4] \in 48..57
  \/ Len(t) = 5 /\ t[1] = 77 /\ t[2] = 65 /\ t[3] = 80 /\ t[4] \in 48..57 /\ t[5] \in 48..57

\* The 0-based indices of the directory entries that are level markers.
MarkerIndices(dir) == {i \in 0..(Len(dir) - 1) : MarkerGrammar(TrimmedEnd(dir[i + 1].name))}

\* C1: a level-scoped lookup that starts right after the level marker at
\* index m never returns a directory entry positioned at or after the next
\* level marker that follows m, also when that marker sits at index m + 1.
C1_ScopedLookupStaysInLevel ==
  (/\ ret.op = "findLump"
   /\ ret.name \in LevelScopedNames
   /\ (ret.startIndex - 1) \in MarkerIndices(directory)
   /\ ret.res.found)
  => \A k \in MarkerIndices(directory) : k >= ret.startIndex => ret.res.index < k

\* The entries a lookup may reach: all from startIndex on, and for a
\* level-scoped name only those before the first marker behind startIndex.
InScope(dir, name, startIndex) ==
  {i \in startIndex..(Len(dir) - 1) :
     name \in LevelScopedNames =>
       \A k \in MarkerIndices(dir) : ~(startIndex < k /\ k <= i)}

\* C3: findLump returns the first entry in reach whose field, trimmed of
\* trailing spaces and NULs, equals the requested name, and reports "not
\* found" exactly when no entry in reach has that trimmed name.
C3_LookupMatchesTrimmedName ==
  ret.op = "findLump" =>
    LET hits == {i \in InScope(directory, ret.name, ret.startIndex) :
                   TrimmedEnd(directory[i + 1].name) = ret.name}
    IN /\ ret.res.found <=> hits # {}
       /\ ret.res.found => /\ ret.res.index \in hits
                           /\ \A j \in hits : ret.res.index <= j
                           /\ ret.res.offset = directory[ret.res.index + 1].filepos
                           /\ ret.res.size = directory[ret.res.index + 1].size

(***************************************************************************)
(* WAD::processWAD, WAD::getLevel, WAD::getLevelNameByIndex                *)
(***************************************************************************)
\* std::vector<T> v(size / sizeof(T)): the number of decoded records.
RecordCount(size, recordSize) == size \div recordSize

\* The cases "if (findLump(NAME, vOffset, vSize, i + 1)) level.x = readX(...)":
\* the number of records of the level's collection, 0 when the lump is not found.
LoadRecords(dir, name, recordSize, i) ==
  LET r == findLump(dir, name, i + 1)
  IN IF r.found THEN RecordCount(r.size, recordSize) ELSE 0

\* The Level built for the marker at index i.  marker is not a field of the
\* code's Level: it records the directory index the level was built from.
MakeLevel(dir, lumpName, i) ==
  [name     |-> lumpName,
   marker   |-> i,
   vertices |-> LoadRecords(dir, nVERTEXES, VertexSize, i),
   linedefs |-> LoadRecords(dir, nLINEDEFS, LinedefSize, i),
   sidedefs |-> LoadRecords(dir, nSIDEDEFS, SidedefSize, i),
   sectors  |-> LoadRecords(dir, nSECTORS, SectorSize, i),
   things   |-> LoadRecords(dir, nTHINGS, ThingSize, i)]

\* A push_back guarded by "the four geometry collections are non-empty".
PushLevel_IfComplete(lvls, level) ==
  IF level.vertices > 0 /\ level.linedefs > 0 /\ level.sidedefs > 0 /\ level.sectors > 0
  THEN Append(lvls, level) ELSE lvls

\* levels_.push_back(level), for every marker.
PushLevel(lvls, level) == Append(lvls, level)

\* The loop over the directory that ends processWAD.
RECURSIVE processLevels(_, _, _)
processLevels(dir, i, lvls) ==
  IF i >= Len(dir) THEN lvls
  ELSE LET lumpName == PopBack(dir[i + 1].name, {SP})
       IN IF isLevelMarker(lumpName)
          THEN processLevels(dir, i + 1, PushLevel(lvls, MakeLevel(dir, lumpName, i)))
          ELSE processLevels(dir, i + 1, lvls)

\* getLevel(name): both names trimmed at both ends of spaces and NULs, the
\* first equal one wins; "Level not found" is thrown when there is none.
RECURSIVE getLevelFrom(_, _, _)
getLevelFrom(lvls, name, i) ==
  IF i >= Len(lvls) THEN [threw |-> TRUE, index |-> -1]
  ELSE LET levelName == PopBack(EraseFront(lvls[i + 1].name, {SP, NUL}), {SP, NUL})
       IN IF levelName = name THEN [threw |-> FALSE, index |-> i]
          ELSE getLevelFrom(lvls, name, i + 1)

\* getLevel trimming its argument at the back only.
getLevel_BackTrimOnly(lvls, name) ==
  getLevelFrom(lvls, PopBack(name, {SP, NUL}), 0)

getLevel(lvls, name) ==
  getLevelFrom(lvls, PopBack(EraseFront(name, {SP, NUL}), {SP, NUL}), 0)

getLevelNameByIndex(lvls, index) ==
  IF index < Len(lvls) THEN [threw |-> FALSE, name |-> lvls[index + 1].name]
  ELSE [threw |-> TRUE, name |-> <<>>]

\* Name fields of the directories whose levels are assembled.  They hold no
\* PLAYPAL, TEXTURE1, TEXTURE2 or PNAMES lump, so processWAD's global lookups
\* all fail and it goes straight to the level loop.
LevelFields ==
  { Pad(nE1M1, NUL), Pad(nMAP01, SP), Pad(nEXM1, NUL),
    Pad(nE1M1 \o <<NUL, 88>>, NUL),
    nVERTEXES, nLINEDEFS, nSIDEDEFS, Pad(nSECTORS, NUL) }

\* Names asked of getLevel.
LevelQueries ==
  { nE1M1, <<SP>> \o nE1M1 \o <<SP>>, <<NUL>> \o nE1M1 \o <<NUL>>,
    nMAP01 \o <<SP>>, nEXM1, nE1M1 \o <<NUL, 88>> }

MaxProcess == 2

InitLevels ==
  /\ directory \in {Layout(f) : f \in SeqsUpTo(LevelFields, MaxDir)}
  /\ levels = <<>>
  /\ file = Idle
  /\ wad = [processed |-> 0]
  /\ textures = Idle
  /\ ret = Idle

ProcessWAD ==
  /\ wad.processed < MaxProcess
  /\ levels' = processLevels(directory, 0, levels)
  /\ wad' = [processed |-> wad.processed + 1]
  /\ ret' = [op |-> "processWAD"]
  /\ UNCHANGED <<directory, file, textures>>

GetLevel(name) ==
  /\ ret' = [op |-> "getLevel", name |-> name, before |-> levels,
             res |-> getLevel(levels, name)]
  /\ UNCHANGED <<directory, levels, file, wad, textures>>

GetLevelNameByIndex(index) ==
  /\ ret' = [op |-> "getLevelNameByIndex", index |-> index,
             res |-> getLevelNameByIndex(levels, index)]
  /\ UNCHANGED <<directory, levels, file, wad, textures>>

NextLevels ==
  \/ ProcessWAD
  \/ \E name \in LevelQueries : GetLevel(name)
  \/ \E index \in 0..Len(levels) : GetLevelNameByIndex(index)

SpecLevels == InitLevels /\ [][NextLevels]_vars

(***************************************************************************)
(* Claims about the level list                                             *)
(***************************************************************************)
\* A name with its leading and trailing spaces and NULs removed.
TrimmedBoth(s) ==
  LET keep == {i \in 1..Len(s) : s[i] \notin {NUL, SP}}
  IN IF keep = {} THEN <<>>
     ELSE SubSeq(s, CHOOSE i \in keep : \A j \in keep : i <= j,
                    CHOOSE i \in keep : \A j \in keep : j <= i)

\* A sequence with its trailing spaces removed.
TrimmedSpaces(s) ==
  LET keep == {i \in 1..Len(s) : s[i] # SP}
  IN IF keep = {} THEN <<>>
     ELSE SubSeq(s, 1, CHOOSE i \in keep : \A j \in keep : j <= i)

IsPrintable(c) == c \in 32..126

\* The bytes of a field before its first NUL, without the non-printable
\* ones and without trailing spaces.
CleanedField(field) ==
  TrimmedSpaces(SelectSeq(SubSeq(field, 1, strnlen(field, Len(field))), IsPrintable))

IsTrimmedMarker(e) == MarkerGrammar(TrimmedEnd(e.name))
IsCleanedMarker(e) == MarkerGrammar(CleanedField(e.name))

C8_GetLevelByTrimmedName ==
  ret.op = "getLevel" =>
    LET hits == {k \in 1..Len(levels) :
                   TrimmedBoth(levels[k].name) = TrimmedBoth(ret.name)}
    IN /\ levels = ret.before
       /\ ret.res.threw <=> hits = {}
       /\ ~ret.res.threw => /\ (ret.res.index + 1) \in hits
                            /\ \A k \in hits : ret.res.index + 1 <= k
       /\ \A other \in LevelQueries :
            TrimmedBoth(other) = TrimmedBoth(ret.name)
              => getLevel(levels, other) = ret.res

\* A padded argument finds the second of two levels.
C8_Witness ==
  /\ ret.op = "getLevel"
  /\ ret.name # TrimmedBoth(ret.name)
  /\ ret.name[1] \in {SP, NUL}
  /\ ~ret.res.threw
  /\ ret.res.index = 1

(***************************************************************************)
(* WAD::WAD, WAD::readDirectory, WAD::readLump and the record decoders     *)
(***************************************************************************)
mIWAD == <<73, 87, 65, 68>>
mPWAD == <<80, 87, 65, 68>>
miwad == <<105, 119, 97, 100>>
mIWAX == <<73, 87, 65, 88>>

MaxLumps == 2

Min(a, b) == IF a < b THEN a ELSE b
Max(a, b) == IF a < b THEN b ELSE a

\* file.read(buf, n) at position pos of a file of len bytes: the bytes read.
BytesRead(len, pos, n) == Min(n, Max(0, len - pos))

\* readDirectory(): resize to numlumps entries and read them in one go; the
\* stream is not looked at afterwards.
readDirectory(f) ==
  [state |-> "constructed",
   dirSize |-> f.numlumps,
   dirBytesRead |-> BytesRead(f.len, f.infotableofs, f.numlumps * DirEntrySize)]

\* The constructor without the identification test.
WADctor_NoMagicCheck(f) ==
  IF ~f.exists THEN [state |-> "threw", what |-> "Unable to open WAD file"]
  ELSE IF BytesRead(f.len, 0, HeaderSize) < HeaderSize
       THEN [state |-> "threw", what |-> "Unable to read WAD header"]
       ELSE readDirectory(f)

\* WAD::WAD(filepath): the object it leaves, or the exception it throws.
WADctor(f) ==
  IF ~f.exists THEN [state |-> "threw", what |-> "Unable to open WAD file"]
  ELSE IF BytesRead(f.len, 0, HeaderSize) < HeaderSize
       THEN [state |-> "threw", what |-> "Unable to read WAD header"]
       ELSE IF f.magic # mIWAD /\ f.magic # mPWAD
            THEN [state |-> "threw", what |-> "Not a valid WAD file"]
            ELSE readDirectory(f)

\* readLump(offset, size): a buffer of size bytes, of which bytesRead came
\* from the file; it throws only when the file cannot be opened.
readLump(f, offset, size) ==
  IF ~f.exists THEN [threw |-> TRUE, what |-> "Unable to open file"]
  ELSE [threw |-> FALSE, len |-> size, bytesRead |-> BytesRead(f.len, offset, size)]

\* readVertices / readLinedefs / readSidedefs / readSectors / readThings:
\* size / sizeof(T) records, then memcpy of size bytes into them.  When size
\* is no multiple of the record size the copy runs past the end of the
\* vector: the call either returns its size / sizeof(T) records with the
\* heap overwritten behind them, or the process dies.
readRecords(f, offset, size, recordSize) ==
  LET data == readLump(f, offset, size)
  IN IF data.threw THEN {[outcome |-> "threw", count |-> 0, overrun |-> 0]}
     ELSE {[outcome |-> "returned",
            count |-> RecordCount(size, recordSize),
            overrun |-> size - RecordCount(size, recordSize) * recordSize]}
          \cup (IF size % recordSize # 0
                THEN {[outcome |-> "crashed", count |-> 0,
                       overrun |-> size - RecordCount(size, recordSize) * recordSize]}
                ELSE {})

readVertices(f, offset, size) == readRecords(f, offset, size, VertexSize)
readLinedefs(f, offset, size) == readRecords(f, offset, size, LinedefSize)
readSidedefs(f, offset, size) == readRecords(f, offset, size, SidedefSize)
readSectors(f, offset, size) == readRecords(f, offset, size, SectorSize)
readThings(f, offset, size) == readRecords(f, offset, size, ThingSize)

FileLens == {0, 4, 11, 12, 28, 44, 60}
Magics == {mIWAD, mPWAD, miwad, mIWAX}
LumpOffsets == {12, 40}
LumpSizes == {0, 4, 10, 14, 26, 30}

Files ==
  {[exists |-> FALSE, len |-> 0, magic |-> <<>>, numlumps |-> 0, infotableofs |-> 0]}
  \cup {[exists |-> TRUE, len |-> l, magic |-> m, numlumps |-> n, infotableofs |-> o] :
          l \in FileLens, m \in Magics, n \in 0..MaxLumps, o \in {HeaderSize, HeaderSize + DirEntrySize}}

InitFile ==
  /\ file \in Files
  /\ wad = Idle
  /\ directory = <<>>
  /\ levels = <<>>
  /\ textures = Idle
  /\ ret = Idle

Construct ==
  /\ wad = Idle
  /\ wad' = WADctor(file)
  /\ ret' = [op |-> "WAD"]
  /\ UNCHANGED <<directory, levels, file, textures>>

\* The file goes away while the archive object lives.
Unlink ==
  /\ file.exists
  /\ wad # Idle /\ wad.state = "constructed"
  /\ file' = [file EXCEPT !.exists = FALSE]
  /\ ret' = [op |-> "unlink"]
  /\ UNCHANGED <<directory, levels, wad, textures>>

ReadLump(offset, size) ==
  /\ wad # Idle /\ wad.state = "constructed"
  /\ ret' = [op |-> "readLump", offset |-> offset, size |-> size,
             res |-> readLump(file, offset, size)]
  /\ UNCHANGED <<directory, levels, file, wad, textures>>

Decoded(op, recordSize, offset, size, r) ==
  /\ wad # Idle /\ wad.state = "constructed"
  /\ ret' = [op |-> op, recordSize |-> recordSize, offset |-> offset, size |-> size, res |-> r]
  /\ UNCHANGED <<directory, levels, file, wad, textures>>

ReadVertices(offset, size) ==
  \E r \in readVertices(file, offset, size) : Decoded("readVertices", VertexSize, offset, size, r)
ReadLinedefs(offset, size) ==
  \E r \in readLinedefs(file, offset, size) : Decoded("readLinedefs", LinedefSize, offset, size, r)
ReadSidedefs(offset, size) ==
  \E r \in readSidedefs(file, offset, size) : Decoded("readSidedefs", SidedefSize, offset, size, r)
ReadSectors(offset, size) ==
  \E r \in readSectors(file, offset, size) : Decoded("readSectors", SectorSize, offset, size, r)
ReadThings(offset, size) ==
  \E r \in readThings(file, offset, size) : Decoded("readThings", ThingSize, offset, size, r)

NextFile ==
  \/ Construct
  \/ Unlink
  \/ \E offset \in LumpOffsets, size \in LumpSizes : ReadLump(offset, size)
  \/ \E offset \in LumpOffsets, size \in LumpSizes : ReadVertices(offset, size)
  \/ \E offset \in LumpOffsets, size \in LumpSizes : ReadLinedefs(offset, size)
  \/ \E offset \in LumpOffsets, size \in LumpSizes : ReadSidedefs(offset, size)
  \/ \E offset \in LumpOffsets, size \in LumpSizes : ReadSectors(offset, size)
  \/ \E offset \in LumpOffsets, size \in LumpSizes : ReadThings(offset, size)

SpecFile == InitFile /\ [][NextFile]_vars

Decoders == {"readVertices", "readLinedefs", "readSidedefs", "readSectors", "readThings"}

\* C2: a fixed-size decoder given a length that is no multiple of its
\* record size reports a format error and yields no records; given a
\* multiple it returns exactly length / recordSize records.
C2_DecoderRejectsPartialRecord ==
  (ret.op \in Decoders /\ ret.res.outcome # "threw") =>
    IF ret.size % ret.recordSize # 0
    THEN ret.res.outcome = "formatError" /\ ret.res.count = 0 /\ ret.res.overrun = 0
    ELSE ret.res.outcome = "returned" /\ ret.res.count * ret.recordSize = ret.size

\* C4: the constructor throws when the file cannot be opened, when the
\* 12-byte header cannot be read in full, or when the magic is neither
\* "IWAD" nor "PWAD"; otherwise it goes on to read the directory.
C4_ConstructorChecksHeader ==
  ret.op = "WAD" =>
    IF \/ ~file.exists
       \/ file.len < 12
       \/ file.magic \notin {mIWAD, mPWAD}
    THEN wad.state = "threw"
    ELSE wad.state = "constructed" /\ wad.dirSize = file.numlumps

\* A complete header with a wrong magic is rejected.
C4_Witness ==
  /\ ret.op = "WAD"
  /\ file.exists /\ file.len >= 12 /\ file.magic = miwad
  /\ wad.state = "threw" /\ wad.what = "Not a valid WAD file"

\* C5: a read that returns fewer bytes than requested fails: readLump on a
\* range that extends past the end of the file throws, and an archive whose
\* file ends before infotableofs + numlumps * 16 is not constructed.
C5_ShortReadFails ==
  /\ (ret.op = "readLump" /\ file.exists /\ ret.offset + ret.size > file.len)
       => ret.res.threw
  /\ (ret.op = "WAD" /\ wad.state = "constructed" /\ file.numlumps > 0)
       => file.infotableofs + file.numlumps * 16 <= file.len

(***************************************************************************)
(* compositePatch (WADConverter and WADRenderer)                           *)
(***************************************************************************)
Gray == 128
Opaque == 255
PaletteSize == 256

\* A raster of width * height RGBA pixels, every byte set to fill.
FilledRaster(width, height, fill) == [i \in 1..(width * height * 4) |-> fill]

\* textureData[destIndex + 0..3] = color.r, color.g, color.b, 255
WriteColor(data, destIndex, color) ==
  [data EXCEPT ![destIndex + 1] = color.r, ![destIndex + 2] = color.g,
               ![destIndex + 3] = color.b, ![destIndex + 4] = Opaque]

\* The loop body without the test "colorIndex > 0".
CompositePixel_NoTransparency(data, a, x, y) ==
  LET destX == a.originX + x
      destY == a.originY + y
      srcIndex == y * a.patch.width + x
      destIndex == (destY * a.texWidth + destX) * 4
  IN IF destX < 0 \/ destX >= a.texWidth THEN data
     ELSE IF destY < 0 \/ destY >= a.texHeight THEN data
     ELSE IF srcIndex >= Len(a.patch.pixels) THEN data
     ELSE IF destIndex + 3 >= Len(data) THEN data
     ELSE LET colorIndex == a.patch.pixels[srcIndex + 1]
          IN IF colorIndex >= Len(a.palette) THEN data
             ELSE WriteColor(data, destIndex, a.palette[colorIndex + 1])

\* The body of WADConverter::compositePatch's loops for patch pixel (x, y);
\* a holds texWidth, texHeight, patch, originX, originY and palette.
CompositePixel(data, a, x, y) ==
  LET destX == a.originX + x
      destY == a.originY + y
      srcIndex == y * a.patch.width + x
      destIndex == (destY * a.texWidth + destX) * 4
  IN IF destX < 0 \/ destX >= a.texWidth THEN data
     ELSE IF destY < 0 \/ destY >= a.texHeight THEN data
     ELSE IF srcIndex >= Len(a.patch.pixels) THEN data
     ELSE IF destIndex + 3 >= Len(data) THEN data
     ELSE LET colorIndex == a.patch.pixels[srcIndex + 1]
          IN IF colorIndex >= Len(a.palette) THEN data
             ELSE IF colorIndex > 0
                  THEN WriteColor(data, destIndex, a.palette[colorIndex + 1])
                  ELSE data

\* for x in 0..width-1, for y in 0..height-1: the n-th pixel visited is
\* (n div height, n mod height).
RECURSIVE CompositeLoop(_, _, _)
CompositeLoop(data, a, n) ==
  IF n >= a.patch.width * a.patch.height THEN data
  ELSE CompositeLoop(CompositePixel(data, a, n \div a.patch.height, n % a.patch.height),
                     a, n + 1)

compositePatch(data, a) ==
  IF a.patch.pixels = <<>> \/ a.patch.width <= 0 \/ a.patch.height <= 0 THEN data
  ELSE IF Len(data) < a.texWidth * a.texHeight * 4 THEN data
  ELSE CompositeLoop(data, a, 0)

\* The body of WADRenderer::compositePatch's loops.
WADRenderer_CompositePixel(data, a, x, y) ==
  LET destX == a.originX + x
      destY == a.originY + y
      srcIndex == y * a.patch.width + x
      destIndex == (destY * a.texWidth + destX) * 4
  IN IF destX < 0 \/ destX >= a.texWidth THEN data
     ELSE IF destY < 0 \/ destY >= a.texHeight THEN data
     ELSE IF srcIndex >= Len(a.patch.pixels) \/ srcIndex < 0 THEN data
     ELSE IF destIndex + 3 >= Len(data) THEN data
     ELSE LET colorIndex == a.patch.pixels[srcIndex + 1]
          IN IF colorIndex >= Len(a.palette) THEN data
             ELSE IF colorIndex > 0
                  THEN WriteColor(data, destIndex, a.palette[colorIndex + 1])
                  ELSE data

RECURSIVE WADRenderer_CompositeLoop(_, _, _)
WADRenderer_CompositeLoop(data, a, n) ==
  IF n >= a.patch.width * a.patch.height THEN data
  ELSE WADRenderer_CompositeLoop(
         WADRenderer_CompositePixel(data, a, n \div a.patch.height, n % a.patch.height),
         a, n + 1)

WADRenderer_compositePatch(data, a) ==
  IF a.patch.pixels = <<>> \/ a.patch.width <= 0 \/ a.patch.height <= 0 THEN data
  ELSE IF Len(data) < a.texWidth * a.texHeight * 4 THEN data
  ELSE WADRenderer_CompositeLoop(data, a, 0)

\* readPalette always yields 256 colours; without a PLAYPAL lump the
\* palette is empty.  Colour i is (i, 255 - i, 7).
Palette256 == [i \in 1..PaletteSize |-> [r |-> i - 1, g |-> 255 - (i - 1), b |-> 7]]

\* level.palette: the 256 colours of PLAYPAL, or empty without that lump.
LevelPalette(hasPalette) == IF hasPalette THEN Palette256 ELSE <<>>

MaxPatchWidth == 2
PixelValues == {0, 1, 255}

\* Patches of up to MaxPatchWidth x 2 pixels, one palette index per pixel,
\* and the degenerate ones: no pixels, fewer pixels than width * height.
CompositePatches ==
  {[width |-> w, height |-> h, pixels |-> px] :
     <<w, h, px>> \in UNION {{<<w, h, px>> : px \in [1..(w * h) -> PixelValues]} :
                              <<w, h>> \in (1..MaxPatchWidth) \X {1, 2}}}
  \cup {[width |-> 1, height |-> 1, pixels |-> <<>>],
        [width |-> 0, height |-> 1, pixels |-> <<1>>],
        [width |-> 2, height |-> 2, pixels |-> <<1, 1, 1>>]}

CompositeArgs ==
  {[texWidth |-> 2, texHeight |-> 2, patch |-> p, originX |-> ox, originY |-> oy,
    hasPalette |-> hp] :
     p \in CompositePatches, ox \in {-1, 0, 1}, oy \in {-1, 0, 1}, hp \in BOOLEAN}

\* The arguments of a call: the palette is the level's.
CallArgs(a) == [palette |-> LevelPalette(a.hasPalette)] @@ a

\* The arguments of the call are drawn first; the call follows.
InitComposite ==
  /\ directory = <<>>
  /\ levels = <<>>
  /\ file = Idle
  /\ wad = Idle
  /\ textures = Idle
  /\ \E a \in CompositeArgs : ret = [op |-> "args", a |-> a]

WADConverter_CompositePatch ==
  /\ ret.op = "args"
  /\ LET a == ret.a
     IN ret' = [op |-> "compositePatch", class |-> "WADConverter", a |-> a,
                before |-> FilledRaster(a.texWidth, a.texHeight, Gray),
                after |-> compositePatch(FilledRaster(a.texWidth, a.texHeight, Gray),
                                         CallArgs(a))]
  /\ UNCHANGED <<directory, levels, file, wad, textures>>

WADRenderer_CompositePatch ==
  /\ ret.op = "args"
  /\ LET a == ret.a
     IN ret' = [op |-> "compositePatch", class |-> "WADRenderer", a |-> a,
                before |-> FilledRaster(a.texWidth, a.texHeight, 0),
                after |-> WADRenderer_compositePatch(FilledRaster(a.texWidth, a.texHeight, 0),
                                                     CallArgs(a))]
  /\ UNCHANGED <<directory, levels, file, wad, textures>>

NextComposite ==
  \/ WADConverter_CompositePatch
  \/ WADRenderer_CompositePatch

SpecComposite == InitComposite /\ [][NextComposite]_vars

\* The palette index of the patch pixel that lands on destination (dx, dy),
\* or -1 when no patch pixel does.
SourceIndexAt(a, dx, dy) ==
  LET x == dx - a.originX
      y == dy - a.originY
  IN IF /\ x \in 0..(a.patch.width - 1)
        /\ y \in 0..(a.patch.height - 1)
        /\ y * a.patch.width + x < Len(a.patch.pixels)
     THEN a.patch.pixels[y * a.patch.width + x + 1]
     ELSE -1

PixelAt(data, texWidth, dx, dy) == SubSeq(data, (dy * texWidth + dx) * 4 + 1, (dy * texWidth + dx) * 4 + 4)

\* C9: compositing a patch changes a destination pixel only if the patch
\* pixel mapped to it has a nonzero palette index and the destination lies
\* inside the raster; a pixel of index 0 never modifies the raster.
C9_IndexZeroIsTransparent ==
  ret.op = "compositePatch" =>
    /\ Len(ret.after) = Len(ret.before)
    /\ \A dx \in 0..(ret.a.texWidth - 1), dy \in 0..(ret.a.texHeight - 1) :
         PixelAt(ret.after, ret.a.texWidth, dx, dy) # PixelAt(ret.before, ret.a.texWidth, dx, dy)
           => SourceIndexAt(ret.a, dx, dy) > 0

\* One patch with an index-0 pixel and a nonzero pixel both inside the
\* raster: the first destination is untouched, the second is written.
C9_Witness ==
  /\ ret.op = "compositePatch"
  /\ \E dx \in 0..1, dy \in 0..1 :
       /\ SourceIndexAt(ret.a, dx, dy) = 0
       /\ PixelAt(ret.after, ret.a.texWidth, dx, dy) = PixelAt(ret.before, ret.a.texWidth, dx, dy)
  /\ \E dx \in 0..1, dy \in 0..1 :
       /\ SourceIndexAt(ret.a, dx, dy) > 0
       /\ PixelAt(ret.after, ret.a.texWidth, dx, dy) # PixelAt(ret.before, ret.a.texWidth, dx, dy)

(***************************************************************************)
(* createTextureFromDef (WADConverter and WADRenderer)                     *)
(***************************************************************************)
nWALL == <<87, 65, 76, 76>>
nDOOR == <<68, 79, 79, 82>>

\* OkStrings::trimFixedString(texDef.name, 8) as WADConverter calls it: the
\* field up to its first NUL, trailing spaces removed.
trimFixedString(field) == PopBack(SubSeq(field, 1, strnlen(field, NameLen)), {SP})

\* std::string texName(texDef.name) followed by the trailing-space loop.
WADRenderer_texName(field) == PopBack(SubSeq(field, 1, strnlen(field, NameLen)), {SP})

\* One iteration of WADConverter::createTextureFromDef's placement loop;
\* st holds textureData, hasValidPatches and validPatchCount.
PlacePatch(st, texDef, patches, palette, i) ==
  LET patchInfo == texDef.patches[i + 1]
  IN IF patchInfo.patch_num >= Len(patches) THEN st
     ELSE LET patchData == patches[patchInfo.patch_num + 1]
          IN IF patchData.pixels = <<>> \/ patchData.width <= 0 \/ patchData.height <= 0
             THEN st
             ELSE [textureData |->
                     compositePatch(st.textureData,
                                    [texWidth |-> texDef.width, texHeight |-> texDef.height,
                                     patch |-> patchData, originX |-> patchInfo.origin_x,
                                     originY |-> patchInfo.origin_y, palette |-> palette]),
                   hasValidPatches |-> TRUE,
                   validPatchCount |-> st.validPatchCount + 1]

RECURSIVE PlacePatches(_, _, _, _, _)
PlacePatches(st, texDef, patches, palette, i) ==
  IF i >= Len(texDef.patches) THEN st
  ELSE PlacePatches(PlacePatch(st, texDef, patches, palette, i), texDef, patches, palette, i + 1)

\* The texture store after WADConverter::createTextureFromDef; store maps a
\* name to the raster OkTextureHandler holds for it.
createTextureFromDef(store, texDef, patches, palette) ==
  LET texName == trimFixedString(texDef.name)
  IN IF texName \in DOMAIN store THEN store
     ELSE IF texDef.width <= 0 \/ texDef.height <= 0 \/ palette = <<>> THEN store
     ELSE LET st == PlacePatches([textureData |-> FilledRaster(texDef.width, texDef.height, Gray),
                                  hasValidPatches |-> FALSE, validPatchCount |-> 0],
                                 texDef, patches, palette, 0)
          IN IF st.hasValidPatches
             THEN (texName :> [data |-> st.textureData, width |-> texDef.width,
                               height |-> texDef.height]) @@ store
             ELSE store

\* One iteration of WADRenderer::createTextureFromDef's placement loop.
WADRenderer_PlacePatch(textureData, texDef, patches, palette, i) ==
  LET patchInfo == texDef.patches[i + 1]
  IN IF patchInfo.patch_num >= Len(patches) THEN textureData
     ELSE LET patchData == patches[patchInfo.patch_num + 1]
          IN IF patchData.pixels = <<>> \/ patchData.width <= 0 \/ patchData.height <= 0
             THEN textureData
             ELSE WADRenderer_compositePatch(textureData,
                    [texWidth |-> texDef.width, texHeight |-> texDef.height,
                     patch |-> patchData, originX |-> patchInfo.origin_x,
                     originY |-> patchInfo.origin_y, palette |-> palette])

RECURSIVE WADRenderer_PlacePatches(_, _, _, _, _)
WADRenderer_PlacePatches(textureData, texDef, patches, palette, i) ==
  IF i >= Len(texDef.patches) THEN textureData
  ELSE WADRenderer_PlacePatches(WADRenderer_PlacePatch(textureData, texDef, patches, palette, i),
                                texDef, patches, palette, i + 1)

\* textureCache after WADRenderer::createTextureFromDef; created is the
\* result of OkTexture::createFromRawData.
WADRenderer_createTextureFromDef(store, texDef, patches, palette, created) ==
  LET texName == WADRenderer_texName(texDef.name)
  IN IF texDef.width <= 0 \/ texDef.height <= 0 \/ texDef.patches = <<>> \/ palette = <<>>
     THEN store
     ELSE IF ~created THEN store
     ELSE (texName :> [data |-> WADRenderer_PlacePatches(
                                  FilledRaster(texDef.width, texDef.height, 0),
                                  texDef, patches, palette, 0),
                       width |-> texDef.width, height |-> texDef.height]) @@ store

\* The archive's patch table: a 2x1 patch with a transparent and an opaque
\* pixel, and a patch without pixels.  Index 2 is out of range.
PatchTable ==
  << [width |-> 2, height |-> 1, pixels |-> <<0, 1>>],
     [width |-> 1, height |-> 1, pixels |-> <<>>] >>

MaxPlacements == 2

Placements ==
  {[origin_x |-> 0, origin_y |-> 0, patch_num |-> pn] : pn \in 0..Len(PatchTable)}
  \cup {[origin_x |-> -1, origin_y |-> 0, patch_num |-> 0]}

\* Definitions of 2x1 textures, and one of width 0.
TextureDefs ==
  {[name |-> n, width |-> 2, height |-> 1, patches |-> ps] :
     n \in {Pad(nWALL, NUL), Pad(nDOOR, SP)}, ps \in SeqsUpTo(Placements, MaxPlacements)}
  \cup {[name |-> Pad(nWALL, NUL), width |-> 0, height |-> 1,
         patches |-> <<[origin_x |-> 0, origin_y |-> 0, patch_num |-> 0]>>]}

InitTex ==
  /\ directory = <<>>
  /\ levels = <<>>
  /\ file = Idle
  /\ wad = Idle
  /\ \E class \in {"WADConverter", "WADRenderer"}, hasPalette \in BOOLEAN :
       textures = [class |-> class, hasPalette |-> hasPalette, store |-> <<>>]
  /\ ret = Idle

WADConverter_CreateTextureFromDef(texDef) ==
  /\ textures.class = "WADConverter"
  /\ textures' = [textures EXCEPT !.store =
                    createTextureFromDef(textures.store, texDef, PatchTable,
                                         LevelPalette(textures.hasPalette))]
  /\ ret' = [op |-> "createTextureFromDef", name |-> texDef.name, texDef |-> texDef,
             before |-> textures.store, created |-> TRUE]
  /\ UNCHANGED <<directory, levels, file, wad>>

\* WADRenderer::createLevelGeometry's texture loop for a definition some
\* sidedef names: the cache is asked for std::string(texDef.name, 8) less
\* trailing spaces (NULs kept), and createTextureFromDef runs on a miss.
WADRenderer_loadTexture(store, texDef, patches, palette, created) ==
  LET texName == PopBack(texDef.name, {SP})
  IN IF texName # <<>> /\ texName \notin DOMAIN store
     THEN WADRenderer_createTextureFromDef(store, texDef, patches, palette, created)
     ELSE store

WADRenderer_CreateTextureFromDef(texDef, created) ==
  /\ textures.class = "WADRenderer"
  /\ textures' = [textures EXCEPT !.store =
                    WADRenderer_loadTexture(textures.store, texDef, PatchTable,
                                            LevelPalette(textures.hasPalette), created)]
  /\ ret' = [op |-> "createTextureFromDef", name |-> texDef.name, texDef |-> texDef,
             before |-> textures.store, created |-> created]
  /\ UNCHANGED <<directory, levels, file, wad>>

NextTex ==
  \/ \E texDef \in TextureDefs : WADConverter_CreateTextureFromDef(texDef)
  \/ \E texDef \in TextureDefs, created \in BOOLEAN :
       WADRenderer_CreateTextureFromDef(texDef, created)

SpecTex == InitTex /\ [][NextTex]_vars

\* The placements of a definition that name a patch of the table that has
\* pixels: the ones that get composited.
CompositedPlacements(texDef) ==
  {i \in 1..Len(texDef.patches) :
     /\ texDef.patches[i].patch_num < Len(PatchTable)
     /\ PatchTable[texDef.patches[i].patch_num + 1].pixels # <<>>}

\* Destination pixel dx of a one-row texture is covered by an opaque pixel
\* of a composited placement.
CoveredByOpaque(texDef, dx) ==
  \E i \in CompositedPlacements(texDef) :
    SourceIndexAt([patch |-> PatchTable[texDef.patches[i].patch_num + 1],
                   originX |-> texDef.patches[i].origin_x,
                   originY |-> texDef.patches[i].origin_y], dx, 0) > 0

\* A call with a valid definition and palette whose name is not in the store
\* yet, and in which the graphics library did not refuse the raster.
CalledOnNewName ==
  /\ ret.op = "createTextureFromDef"
  /\ ret.created
  /\ trimFixedString(ret.texDef.name) \notin DOMAIN ret.before
  /\ ret.texDef.width > 0
  /\ textures.hasPalette

\* C10: createTextureFromDef creates the texture if and only if at least
\* one of its patch placements composited; pixels no composited placement
\* covers keep the gray placeholder, and a definition with zero composited
\* patches creates no texture.
C10_TextureIffSomePatchComposited ==
  CalledOnNewName =>
    LET texName == trimFixedString(ret.texDef.name)
    IN /\ texName \in DOMAIN textures.store <=> CompositedPlacements(ret.texDef) # {}
       /\ texName \in DOMAIN textures.store =>
            \A dx \in 0..(ret.texDef.width - 1) :
              ~CoveredByOpaque(ret.texDef, dx) =>
                PixelAt(textures.store[texName].data, ret.texDef.width, dx, 0)
                  = <<Gray, Gray, Gray, Gray>>

\* C10 restricted to the WADConverter class, which main.cpp uses.
C10_ConverterTextureIffSomePatchComposited ==
  textures.class = "WADConverter" => C10_TextureIffSomePatchComposited

\* A definition with one out-of-range placement and one valid placement
\* handled by WADConverter: the texture exists.
C10_ConverterMixedDefinition ==
  /\ CalledOnNewName
  /\ textures.class = "WADConverter"
  /\ Len(ret.texDef.patches) = 2
  /\ Cardinality(CompositedPlacements(ret.texDef)) = 1
  /\ trimFixedString(ret.texDef.name) \in DOMAIN textures.store

\* The names in a store, each less its trailing spaces and NULs.
TrimmedNames(store) == {TrimmedEnd(k) : k \in DOMAIN store}

\* C11: a call whose trimmed name is already present in the texture store
\* returns without creating or replacing anything; the stored raster of a
\* name stays the one of its first successful build.
C11_BuiltOncePerTrimmedName ==
  (/\ ret.op \in {"createTextureFromDef", "createFlatTexture"}
   /\ TrimmedEnd(ret.name) \in TrimmedNames(ret.before))
    => textures.store = ret.before

\* C11 restricted to WADConverter::createTextureFromDef.
C11_ConverterDefBuiltOnce ==
  (textures.class = "WADConverter" /\ ret.op = "createTextureFromDef")
    => C11_BuiltOncePerTrimmedName

\* WADConverter is asked again for a name it has already built.
C11_ConverterSecondCall ==
  /\ textures.class = "WADConverter"
  /\ ret.op = "createTextureFromDef"
  /\ TrimmedEnd(ret.name) \in TrimmedNames(ret.before)
  /\ ret.texDef.width > 0
  /\ CompositedPlacements(ret.texDef) # {}

(***************************************************************************)
(* createFlatTexture (WADConverter)                                        *)
(***************************************************************************)
FLAT_SIZE == 64
TOTAL_PIXELS == FLAT_SIZE * FLAT_SIZE

nFLAT == <<70, 76, 65, 84>>

\* createFlatTexture(flat.name, ...): the char[8] field becomes a
\* std::string up to its first NUL; nothing is trimmed.
flatName(field) == SubSeq(field, 1, strnlen(field, NameLen))

\* The conversion loop with index 0 left as it was allocated.
FlatPixel_IndexZeroTransparent(colorIndex, palette) ==
  IF colorIndex >= Len(palette) \/ colorIndex = 0 THEN <<0, 0, 0, 0>>
  ELSE <<palette[colorIndex + 1].r, palette[colorIndex + 1].g,
         palette[colorIndex + 1].b, Opaque>>

\* The four bytes the conversion loop leaves for one flat byte: the raster
\* starts as zeros and an index the palette lacks is skipped.
FlatPixel(colorIndex, palette) ==
  IF colorIndex >= Len(palette) THEN <<0, 0, 0, 0>>
  ELSE <<palette[colorIndex + 1].r, palette[colorIndex + 1].g,
         palette[colorIndex + 1].b, Opaque>>

FlatRaster(data, palette) ==
  [k \in 1..(TOTAL_PIXELS * 4) |->
     FlatPixel(data[((k - 1) \div 4) + 1], palette)[((k - 1) % 4) + 1]]

\* The texture store after WADConverter::createFlatTexture.
createFlatTexture(store, name, flatData, palette) ==
  IF name \in DOMAIN store THEN store
  ELSE IF Len(flatData.data) # TOTAL_PIXELS THEN store
  ELSE (name :> [data |-> FlatRaster(flatData.data, palette),
                 width |-> FLAT_SIZE, height |-> FLAT_SIZE]) @@ store

\* Flat lumps: all index 0, every index in turn, and three of a wrong size.
FlatLumps == {"zeros", "ramp", "short", "long", "empty"}

FlatLump(id) ==
  CASE id = "zeros" -> [i \in 1..TOTAL_PIXELS |-> 0]
    [] id = "ramp" -> [i \in 1..TOTAL_PIXELS |-> (i - 1) % PaletteSize]
    [] id = "short" -> [i \in 1..(TOTAL_PIXELS - 1) |-> 1]
    [] id = "long" -> [i \in 1..(TOTAL_PIXELS + 1) |-> 1]
    [] OTHER -> <<>>

FlatFields == {Pad(nFLAT, NUL), Pad(nFLAT \o <<SP, SP>>, NUL)}

InitFlat ==
  /\ directory = <<>>
  /\ levels = <<>>
  /\ file = Idle
  /\ wad = Idle
  /\ \E hasPalette \in BOOLEAN :
       textures = [class |-> "WADConverter", hasPalette |-> hasPalette, store |-> <<>>]
  /\ ret = Idle

CreateFlatTexture(field, id) ==
  /\ textures' = [textures EXCEPT !.store =
                    createFlatTexture(textures.store, flatName(field),
                                      [name |-> field, data |-> FlatLump(id)],
                                      LevelPalette(textures.hasPalette))]
  /\ ret' = [op |-> "createFlatTexture", name |-> field, flat |-> id,
             before |-> textures.store]
  /\ UNCHANGED <<directory, levels, file, wad>>

NextFlat == \E field \in FlatFields, id \in FlatLumps : CreateFlatTexture(field, id)

SpecFlat == InitFlat /\ [][NextFlat]_vars

FlatBuilt == flatName(ret.name) \in DOMAIN textures.store \ DOMAIN ret.before

PlayerStartType == 1
MaxThings == 2

\* Thing records as far as the player start looks at them.
Things == {[type |-> t, x |-> x, y |-> 0] : t \in {PlayerStartType, 2}, x \in {0, 64}}

\* The Level that processWAD appends for a marker whose THINGS lump holds
\* things.  "Level level;" leaves has_player_start and player_start
\* uninitialized and no statement assigns them: hps and ps are whatever the
\* memory held.
LevelWithThings(things, hps, ps) ==
  [name |-> Pad(nE1M1, NUL), things |-> things, has_player_start |-> hps,
   player_start |-> ps,
   vertices |-> <<>>, linedefs |-> <<>>, sidedefs |-> <<>>, sectors |-> <<>>]

PLAYER_EYE_HEIGHT == 41

\* The loop over the linedefs that looks for the floor under the player:
\* the floor height found (0 when none) and the element accesses made, each
\* with its collection, index and the collection's size.  pointInSector is
\* declared but has no definition in the sources: inSector is the set of
\* linedef indices for which it answers true.
RECURSIVE PlayerFloor(_, _, _, _)
PlayerFloor(level, inSector, i, accesses) ==
  IF i >= Len(level.linedefs) THEN [floorHeight |-> 0, accesses |-> accesses]
  ELSE
    LET linedef == level.linedefs[i + 1]
        nsd == Len(level.sidedefs)
        nsc == Len(level.sectors)
        nv == Len(level.vertices)
    IN IF linedef.right_sidedef >= nsd
       THEN PlayerFloor(level, inSector, i + 1, accesses)
       ELSE
         LET sidedef == level.sidedefs[linedef.right_sidedef + 1]
             a1 == accesses \cup {<<"sidedefs", linedef.right_sidedef, nsd>>}
         IN IF sidedef.sector >= nsc
            THEN PlayerFloor(level, inSector, i + 1, a1)
            ELSE
              LET a2 == a1 \cup {<<"sectors", sidedef.sector, nsc>>,
                                 <<"vertices", linedef.start_vertex, nv>>,
                                 <<"vertices", linedef.end_vertex, nv>>}
              IN IF i \in inSector
                 THEN [floorHeight |-> level.sectors[sidedef.sector + 1].floor_height,
                       accesses |-> a2]
                 ELSE PlayerFloor(level, inSector, i + 1, a2)

\* WADConverter::getPlayerStartPosition: nullptr without a player start,
\* else the point (x, y, -z) made from player_start, the class's centerX
\* and centerY (center holds twice their values) and the floor found.
getPlayerStartPosition(level, center, inSector) ==
  IF ~level.has_player_start THEN [null |-> TRUE, accesses |-> {}]
  ELSE LET floor == PlayerFloor(level, inSector, 0, {})
       IN [null |-> FALSE,
           x |-> [n |-> 2 * level.player_start.x - center.x2, d |-> 2],
           y |-> floor.floorHeight + PLAYER_EYE_HEIGHT,
           z |-> [n |-> -(2 * level.player_start.y - center.y2), d |-> 2],
           accesses |-> floor.accesses]

InitStart ==
  /\ directory = <<>>
  /\ levels = <<>>
  /\ file \in {[things |-> th] : th \in SeqsUpTo(Things, MaxThings)}
  /\ wad = Idle
  /\ textures = Idle
  /\ ret = Idle

ProcessLevelThings(hps, ps) ==
  /\ levels = <<>>
  /\ levels' = PushLevel(levels, LevelWithThings(file.things, hps, ps))
  /\ ret' = [op |-> "processWAD"]
  /\ UNCHANGED <<directory, file, wad, textures>>

GetPlayerStartPosition ==
  /\ levels # <<>>
  /\ ret' = [op |-> "getPlayerStartPosition",
             res |-> getPlayerStartPosition(levels[1], [x2 |-> 0, y2 |-> 0], {})]
  /\ UNCHANGED <<directory, levels, file, wad, textures>>

NextStart ==
  \/ \E hps \in BOOLEAN, ps \in Things : ProcessLevelThings(hps, ps)
  \/ GetPlayerStartPosition

SpecStart == InitStart /\ [][NextStart]_vars

PlayerStarts(things) == {i \in 1..Len(things) : things[i].type = 1}

\* C15: after processWAD a level whose THINGS lump holds a Thing of type 1
\* has has_player_start set and player_start equal to that Thing, a level
\* without one has has_player_start false, and getPlayerStartPosition
\* returns a position exactly for the levels that hold such a Thing.
C15_PlayerStartFromThings ==
  /\ \A i \in 1..Len(levels) :
       /\ levels[i].has_player_start <=> PlayerStarts(levels[i].things) # {}
       /\ levels[i].has_player_start =>
            \E k \in PlayerStarts(levels[i].things) :
              levels[i].player_start = levels[i].things[k]
  /\ ret.op = "getPlayerStartPosition" =>
       (ret.res.null <=> PlayerStarts(levels[1].things) = {})

(***************************************************************************)
(* WADConverter::createLevelGeometry                                       *)
(*                                                                         *)
(* Floats are kept exact: a height is the integer it was converted from,   *)
(* a recentred coordinate is a fraction over 2 (the centre is half the sum *)
(* of the bounds), a texture coordinate is a fraction over the texture     *)
(* size, with the squared wall length kept where the code takes its root.  *)
(***************************************************************************)
NoSide == 65535
TEXTURE_WIDTH == 64
TEXTURE_HEIGHT == 128
TEXTURE_SIZE == 64

nDash == <<45>>
nUP == <<85, 80>>
nLOW == <<76, 79, 87>>
nMID == <<77, 73, 68>>
nFLOOR == <<70, 76, 79, 79, 82>>
nCEIL == <<67, 69, 73, 76>>

SetMin(S) == CHOOSE m \in S : \A n \in S : m <= n
SetMax(S) == CHOOSE m \in S : \A n \in S : n <= m

\* centerX, centerY as twice their value: minX + maxX, minY + maxY.  With
\* no vertex the bounds stay at max() and lowest(), whose sum is 0.
LevelCenter(vertices) ==
  IF vertices = <<>> THEN [x2 |-> 0, y2 |-> 0]
  ELSE LET xs == {vertices[i].x : i \in 1..Len(vertices)}
           ys == {vertices[i].y : i \in 1..Len(vertices)}
       IN [x2 |-> SetMin(xs) + SetMax(xs), y2 |-> SetMin(ys) + SetMax(ys)]

\* A GeometryGroup as operator[] of the map default-constructs it.
EmptyGroup == [vertices |-> <<>>, indices |-> <<>>, textureName |-> <<>>]

\* geometryGroups[textureName] followed by group.textureName = textureName.
GroupOf(groups, textureName) ==
  IF textureName \in DOMAIN groups THEN groups[textureName]
  ELSE [EmptyGroup EXCEPT !.textureName = textureName]

\* The test on the wall's height left to reject only negative heights.
NoWallHeight_Negative(wallHeight) == wallHeight < 0

\* "if (wallHeight <= 0.0f) return;"
NoWallHeight(wallHeight) == wallHeight <= 0

\* The quad's first index taken after its four vertices, not before.
WallBaseIndex_AfterQuad(vertices) == Len(vertices) \div 5

\* "baseIndex = vertices.size() / 5 - 4", the quad's vertices already pushed.
WallBaseIndex(vertices) == (Len(vertices) \div 5) - 4

\* createWallSection: the group after the call.
createWallSection(vertex1, vertex2, bottomHeight, topHeight, sidedef, group, center) ==
  LET x1 == [n |-> 2 * vertex1.x - center.x2, d |-> 2]
      z1 == 2 * vertex1.y - center.y2
      x2 == [n |-> 2 * vertex2.x - center.x2, d |-> 2]
      z2 == 2 * vertex2.y - center.y2
      wallBottom == bottomHeight
      wallTop == topHeight
      wallHeight == wallTop - wallBottom
      len2 == (vertex2.x - vertex1.x) * (vertex2.x - vertex1.x)
                + (vertex2.y - vertex1.y) * (vertex2.y - vertex1.y)
      u1 == [n |-> sidedef.x_offset, d |-> TEXTURE_WIDTH]
      u2 == [n |-> sidedef.x_offset, d |-> TEXTURE_WIDTH, len2 |-> len2]
      v1 == [n |-> sidedef.y_offset, d |-> TEXTURE_HEIGHT]
      v2 == [n |-> sidedef.y_offset + wallHeight, d |-> TEXTURE_HEIGHT]
      vertices == group.vertices \o
                    << x1, wallBottom, [n |-> -z1, d |-> 2], u1, v1,
                       x1, wallTop, [n |-> -z1, d |-> 2], u1, v2,
                       x2, wallBottom, [n |-> -z2, d |-> 2], u2, v1,
                       x2, wallTop, [n |-> -z2, d |-> 2], u2, v2 >>
      baseIndex == WallBaseIndex(vertices)
  IN IF NoWallHeight(wallHeight) THEN group
     ELSE [group EXCEPT !.vertices = vertices,
                        !.indices = @ \o << baseIndex, baseIndex + 1, baseIndex + 2,
                                            baseIndex + 1, baseIndex + 3, baseIndex + 2 >>]

\* The group lookup and the createWallSection call of one wall.
AddWall(groups, textureName, v1, v2, bottom, top, sidedef, center) ==
  (textureName :> createWallSection(v1, v2, bottom, top, sidedef,
                                    GroupOf(groups, textureName), center)) @@ groups

ValidTextureName(textureName) == textureName # <<>> /\ textureName # nDash

\* The comparison of the ceilings turned round.
UpperWallNeeded_Reversed(sector1, sector2) == sector2.ceiling_height > sector1.ceiling_height

\* "Create upper wall if ceilings differ".
UpperWallNeeded(sector1, sector2) == sector1.ceiling_height > sector2.ceiling_height

\* The comparison of the floors turned round.
LowerWallNeeded_Reversed(sector1, sector2) == sector1.floor_height > sector2.floor_height

\* "Create lower wall if floors differ".
LowerWallNeeded(sector1, sector2) == sector2.floor_height > sector1.floor_height

\* The middle wall made between identical sectors only.
MiddleWallNeeded_IdenticalOnly(sector1, sector2) ==
  /\ sector1.ceiling_height = sector2.ceiling_height
  /\ sector1.floor_height = sector2.floor_height
  /\ sector1.ceiling_height > sector1.floor_height

\* "Create middle wall in gaps": the outer test on the right sector's own
\* heights and the inner test top > bottom.
MiddleWallNeeded(sector1, sector2) ==
  /\ \/ /\ sector1.ceiling_height = sector2.ceiling_height
        /\ sector1.floor_height = sector2.floor_height
     \/ sector2.ceiling_height > sector2.floor_height
  /\ Min(sector1.ceiling_height, sector2.ceiling_height)
       > Max(sector1.floor_height, sector2.floor_height)

\* The two-sided case: sector1 is the left side's sector, sector2 the
\* right side's.
TwoSidedWalls(groups, v1, v2, sector1, sector2, rightSide, center) ==
  LET upperName == trimFixedString(rightSide.upper_texture)
      lowerName == trimFixedString(rightSide.lower_texture)
      middleTexName == trimFixedString(rightSide.middle_texture)
      g1 == IF UpperWallNeeded(sector1, sector2) /\ ValidTextureName(upperName)
            THEN AddWall(groups, upperName, v1, v2, sector2.ceiling_height,
                         sector1.ceiling_height, rightSide, center)
            ELSE groups
      g2 == IF LowerWallNeeded(sector1, sector2) /\ ValidTextureName(lowerName)
            THEN AddWall(g1, lowerName, v1, v2, sector1.floor_height,
                         sector2.floor_height, rightSide, center)
            ELSE g1
      bottom == Max(sector1.floor_height, sector2.floor_height)
      top == Min(sector1.ceiling_height, sector2.ceiling_height)
  IN IF ValidTextureName(middleTexName) /\ MiddleWallNeeded(sector1, sector2)
     THEN AddWall(g2, middleTexName, v1, v2, bottom, top, rightSide, center)
     ELSE g2

\* The one-sided case.
OneSidedWall(groups, v1, v2, sector, rightSide, center) ==
  LET textureName == trimFixedString(rightSide.middle_texture)
  IN IF ValidTextureName(textureName)
     THEN AddWall(groups, textureName, v1, v2, sector.floor_height,
                  sector.ceiling_height, rightSide, center)
     ELSE groups

\* seq[i] of the code; an index past the end reads whatever lies there.
At(seq, i, garbage) == IF i < Len(seq) THEN seq[i + 1] ELSE garbage

GarbageVertex == [x |-> 0, y |-> 0]

\* The test on the vertex indices left out.
VertexIndicesValid_Unchecked(level, linedef) == TRUE

\* "Skip invalid vertex indices".
VertexIndicesValid(level, linedef) ==
  /\ linedef.start_vertex < Len(level.vertices)
  /\ linedef.end_vertex < Len(level.vertices)

\* One iteration of the first pass.  st holds sectorVertices, the geometry
\* groups and, for every element access made, the collection, the index and
\* the collection's size.
LinedefStep(st, level, linedef, center) ==
  IF ~VertexIndicesValid(level, linedef) THEN st
  ELSE
    LET v1 == At(level.vertices, linedef.start_vertex, GarbageVertex)
        v2 == At(level.vertices, linedef.end_vertex, GarbageVertex)
        nv == Len(level.vertices)
        nsd == Len(level.sidedefs)
        nsc == Len(level.sectors)
        a1 == st.accesses \cup {<<"vertices", linedef.start_vertex, nv>>,
                                <<"vertices", linedef.end_vertex, nv>>}
    IN IF linedef.right_sidedef # NoSide /\ linedef.right_sidedef < nsd
       THEN
         LET rightSide == level.sidedefs[linedef.right_sidedef + 1]
             a2 == a1 \cup {<<"sidedefs", linedef.right_sidedef, nsd>>}
         IN IF rightSide.sector < nsc
            THEN
              LET sv == [st.sectorVertices EXCEPT ![rightSide.sector + 1] =
                           @ \o <<linedef.start_vertex, linedef.end_vertex>>]
                  a3 == a2 \cup {<<"sectorVertices", rightSide.sector, nsc>>}
              IN IF linedef.left_sidedef # NoSide /\ linedef.left_sidedef < nsd
                 THEN
                   LET leftSide == level.sidedefs[linedef.left_sidedef + 1]
                       a4 == a3 \cup {<<"sidedefs", linedef.left_sidedef, nsd>>}
                   IN IF leftSide.sector < nsc
                      THEN [sectorVertices |-> sv,
                            groups |-> TwoSidedWalls(st.groups, v1, v2,
                                         level.sectors[leftSide.sector + 1],
                                         level.sectors[rightSide.sector + 1],
                                         rightSide, center),
                            accesses |-> a4 \cup {<<"sectors", leftSide.sector, nsc>>,
                                                  <<"sectors", rightSide.sector, nsc>>}]
                      ELSE [sectorVertices |-> sv, groups |-> st.groups, accesses |-> a4]
                 ELSE [sectorVertices |-> sv,
                       groups |-> OneSidedWall(st.groups, v1, v2,
                                               level.sectors[rightSide.sector + 1],
                                               rightSide, center),
                       accesses |-> a3 \cup {<<"sectors", rightSide.sector, nsc>>}]
            ELSE [st EXCEPT !.accesses = a2]
       ELSE [st EXCEPT !.accesses = a1]

RECURSIVE FirstPass(_, _, _, _)
FirstPass(st, level, center, i) ==
  IF i >= Len(level.linedefs) THEN st
  ELSE FirstPass(LinedefStep(st, level, level.linedefs[i + 1], center), level, center, i + 1)

\* std::sort followed by erase(std::unique(...)).
RECURSIVE SortUnique(_)
SortUnique(S) ==
  IF S = {} THEN <<>> ELSE <<SetMin(S)>> \o SortUnique(S \ {SetMin(S)})

Range(seq) == {seq[i] : i \in 1..Len(seq)}

\* std::sort alone: the elements in ascending order, duplicates kept.
RECURSIVE Sorted(_)
Sorted(seq) ==
  IF seq = <<>> THEN <<>>
  ELSE LET m == SetMin(Range(seq))
       IN SelectSeq(seq, LAMBDA v : v = m) \o Sorted(SelectSeq(seq, LAMBDA v : v # m))

\* The sort without the erase of the duplicates.
SortedDistinct_KeepDuplicates(seq) == Sorted(seq)

\* "Remove duplicate vertices": sort, then erase what unique leaves behind.
SortedDistinct(seq) == SortUnique(Range(seq))

\* The ceiling's triangles wound like the floor's.
FanTriangle_SameWinding(baseIndex, i, isFloor) == <<baseIndex, baseIndex + i, baseIndex + i + 1>>

\* One triangle of the fan: "Floor - CCW winding", "Ceiling - Reverse winding".
FanTriangle(baseIndex, i, isFloor) ==
  IF isFloor THEN <<baseIndex, baseIndex + i, baseIndex + i + 1>>
  ELSE <<baseIndex, baseIndex + i + 1, baseIndex + i>>

\* createSectorGeometry: the group after the call.
createSectorGeometry(level, sector, sectorVertices, group, isFloor, center) ==
  LET n == Len(sectorVertices)
      height == IF isFloor THEN sector.floor_height ELSE sector.ceiling_height
      baseIndex == Len(group.vertices) \div 5
      vs == [i \in 1..n |-> level.vertices[sectorVertices[i] + 1]]
      minX == SetMin({vs[i].x : i \in 1..n})
      minY == SetMin({vs[i].y : i \in 1..n})
      Vertex5(i) ==
        LET u == (vs[i].x - minX) % TEXTURE_SIZE
            v == (vs[i].y - minY) % TEXTURE_SIZE
        IN << [n |-> 2 * vs[i].x - center.x2, d |-> 2],
              height,
              [n |-> -(2 * vs[i].y - center.y2), d |-> 2],
              [n |-> u, d |-> TEXTURE_SIZE],
              [n |-> IF isFloor THEN v ELSE TEXTURE_SIZE - v, d |-> TEXTURE_SIZE] >>
  IN IF n < 3 THEN group
     ELSE [group EXCEPT
             !.vertices = @ \o [k \in 1..(5 * n) |-> Vertex5(((k - 1) \div 5) + 1)[((k - 1) % 5) + 1]],
             !.indices = @ \o [k \in 1..(3 * (n - 2)) |-> FanTriangle(baseIndex, ((k - 1) \div 3) + 1, isFloor)[((k - 1) % 3) + 1]]]

\* One iteration of the second pass, for sector i.
SectorStep(st, level, i, center) ==
  LET sector == level.sectors[i + 1]
      sv == SortedDistinct(st.sectorVertices[i + 1])
      floorTexName == trimFixedString(sector.floor_texture)
      ceilingTexName == trimFixedString(sector.ceiling_texture)
      g1 == IF ValidTextureName(floorTexName)
            THEN (floorTexName :> createSectorGeometry(level, sector, sv,
                                    GroupOf(st.groups, floorTexName), TRUE, center))
                 @@ st.groups
            ELSE st.groups
      g2 == IF ValidTextureName(ceilingTexName)
            THEN (ceilingTexName :> createSectorGeometry(level, sector, sv,
                                      GroupOf(g1, ceilingTexName), FALSE, center))
                 @@ g1
            ELSE g1
  IN [sectorVertices |-> [st.sectorVertices EXCEPT ![i + 1] = sv],
      groups |-> g2,
      accesses |-> st.accesses \cup {<<"sectors", i, Len(level.sectors)>>}
                     \cup (IF Len(sv) >= 3 /\ (ValidTextureName(floorTexName)
                                               \/ ValidTextureName(ceilingTexName))
                           THEN {<<"vertices", sv[k], Len(level.vertices)>> : k \in 1..Len(sv)}
                           ELSE {})]

RECURSIVE SecondPass(_, _, _, _)
SecondPass(st, level, center, i) ==
  IF i >= Len(level.sectors) THEN st
  ELSE SecondPass(SectorStep(st, level, i, center), level, center, i + 1)

\* The two passes of createLevelGeometry over a level.
LevelGeometry(level, center) ==
  SecondPass(FirstPass([sectorVertices |-> [i \in 1..Len(level.sectors) |-> <<>>],
                        groups |-> <<>>, accesses |-> {}],
                       level, center, 0),
             level, center, 0)

\* The items made from the groups: one per group that holds geometry.
Items(groups) ==
  {name \in DOMAIN groups : groups[name].vertices # <<>> /\ groups[name].indices # <<>>}

\* "First, create all flat (floor/ceiling) textures".
RECURSIVE LoadFlats(_, _, _)
LoadFlats(store, level, i) ==
  IF i >= Len(level.flats) THEN store
  ELSE LoadFlats(createFlatTexture(store, flatName(level.flats[i + 1].name),
                                   level.flats[i + 1], level.palette),
                 level, i + 1)

\* The texture definitions a sidedef asks for: those named like one of its
\* three wall textures or like the floor or ceiling of its sector.
RECURSIVE LoadSidedefTextures(_, _, _, _)
LoadSidedefTextures(store, level, sidedef, j) ==
  IF j >= Len(level.texture_defs) THEN store
  ELSE
    LET texDef == level.texture_defs[j + 1]
        texName == trimFixedString(texDef.name)
        sector == level.sectors[sidedef.sector + 1]
        wanted == {trimFixedString(sidedef.upper_texture),
                   trimFixedString(sidedef.middle_texture),
                   trimFixedString(sidedef.lower_texture),
                   trimFixedString(sector.floor_texture),
                   trimFixedString(sector.ceiling_texture)}
    IN LoadSidedefTextures(
         IF texName # <<>> /\ texName \in wanted
         THEN createTextureFromDef(store, texDef, level.patches, level.palette)
         ELSE store,
         level, sidedef, j + 1)

\* "Then load all wall textures we'll need".
RECURSIVE LoadWallTextures(_, _, _)
LoadWallTextures(store, level, i) ==
  IF i >= Len(level.sidedefs) THEN store
  ELSE LoadWallTextures(
         IF level.sidedefs[i + 1].sector < Len(level.sectors)
         THEN LoadSidedefTextures(store, level, level.sidedefs[i + 1], 0)
         ELSE store,
         level, i + 1)

\* Levels of one linedef between two sectors: sector 0 on the right side
\* (sidedef 0), sector 1 on the left side (sidedef 1).  Index 2 is out of
\* range in every collection.
Heights == {[floor_height |-> f, ceiling_height |-> c] : f \in {0, 24}, c \in {0, 64, 128}}

PairSector(h) ==
  [floor_height |-> h.floor_height, ceiling_height |-> h.ceiling_height,
   floor_texture |-> Pad(nFLOOR, NUL), ceiling_texture |-> Pad(nCEIL, NUL)]

PairSide(upper, lower, middle, sector) ==
  [x_offset |-> 0, y_offset |-> 0, upper_texture |-> upper, lower_texture |-> lower,
   middle_texture |-> middle, sector |-> sector]

\* start vertex, right sidedef, left sidedef, right side's sector, left
\* side's sector: all valid, then one of them absent or out of range.
PairRefs ==
  { <<0, 0, 1, 0, 1>>, <<0, 0, NoSide, 0, 1>>, <<2, 0, 1, 0, 1>>, <<0, 2, 1, 0, 1>>,
    <<0, NoSide, 1, 0, 1>>, <<0, 0, 2, 0, 1>>, <<0, 0, 1, 0, 2>>, <<0, 0, 1, 2, 1>>,
    <<2, 0, NoSide, 0, 1>>, <<0, 0, NoSide, 2, 1>> }

WallTextureDef ==
  [name |-> Pad(nMID, NUL), width |-> 2, height |-> 1,
   patches |-> <<[origin_x |-> 0, origin_y |-> 0, patch_num |-> 0]>>]

PairLevels ==
  {[vertices |-> <<[x |-> 0, y |-> 0], [x |-> 64, y |-> 0]>>,
    linedefs |-> <<[start_vertex |-> r[1], end_vertex |-> 1,
                    right_sidedef |-> r[2], left_sidedef |-> r[3]]>>,
    sidedefs |-> <<PairSide(up, low, mid, r[4]),
                   PairSide(Pad(nDash, NUL), Pad(nDash, NUL), Pad(nDash, NUL), r[5])>>,
    sectors |-> <<PairSector(hr), PairSector(hl)>>,
    texture_defs |-> <<WallTextureDef>>, patches |-> PatchTable,
    palette |-> "PLAYPAL", flats |-> <<>>] :
     r \in PairRefs, hr \in Heights, hl \in Heights,
     up \in {Pad(nUP, NUL), Pad(nDash, NUL), Pad(<<>>, NUL)},
     low \in {Pad(nLOW, SP), Pad(nDash, NUL)},
     mid \in {Pad(nMID, NUL), Pad(nDash, NUL), Pad(<<>>, NUL)}}

\* Levels of one sector bounded by k consecutive edges of a ring of n
\* vertices, the first edge starting at vertex r, every linedef one-sided
\* with the sector on its right.
MaxPoly == 4

PolyVertices(n) ==
  IF n = 4
  THEN <<[x |-> 0, y |-> 0], [x |-> 64, y |-> 0], [x |-> 64, y |-> 64], [x |-> 0, y |-> 64]>>
  ELSE [i \in 1..n |-> [x |-> 32 * (i - 1), y |-> 16 * (i - 1) * (i - 1)]]

PolyLevels ==
  {[vertices |-> PolyVertices(n),
    linedefs |-> [i \in 1..k |-> [start_vertex |-> (i - 1 + r) % n, end_vertex |-> (i + r) % n,
                                  right_sidedef |-> 0, left_sidedef |-> NoSide]],
    sidedefs |-> <<PairSide(Pad(nDash, NUL), Pad(nDash, NUL), mid, 0)>>,
    sectors |-> <<[floor_height |-> 0, ceiling_height |-> 64,
                   floor_texture |-> ft, ceiling_texture |-> ct]>>,
    texture_defs |-> <<>>, patches |-> PatchTable, palette |-> pal, flats |-> <<>>] :
     <<n, k>> \in {<<n, k>> \in (3..MaxPoly) \X (1..MaxPoly) : k <= n},
     mid \in {Pad(nMID, NUL), Pad(nDash, NUL)},
     ft \in {Pad(nFLOOR, NUL), Pad(nDash, NUL)},
     ct \in {Pad(nCEIL, NUL), Pad(nFLOOR, NUL), Pad(<<>>, NUL)},
     pal \in {"PLAYPAL", "none"}, r \in 0..1}

\* Levels of two linedefs along the same edge of one sector, one of them
\* with a vertex or a right side that is out of range or absent.
BadLinedefs ==
  {[start_vertex |-> 2, end_vertex |-> 1, right_sidedef |-> 0, left_sidedef |-> NoSide],
   [start_vertex |-> 0, end_vertex |-> 2, right_sidedef |-> 0, left_sidedef |-> NoSide],
   [start_vertex |-> 0, end_vertex |-> 1, right_sidedef |-> 1, left_sidedef |-> NoSide],
   [start_vertex |-> 0, end_vertex |-> 1, right_sidedef |-> NoSide, left_sidedef |-> 0]}

GoodLinedef == [start_vertex |-> 0, end_vertex |-> 1, right_sidedef |-> 0, left_sidedef |-> NoSide]

MixedLevels ==
  {[vertices |-> <<[x |-> 0, y |-> 0], [x |-> 64, y |-> 0]>>,
    linedefs |-> lds,
    sidedefs |-> <<PairSide(Pad(nDash, NUL), Pad(nDash, NUL), Pad(nMID, NUL), 0)>>,
    sectors |-> <<PairSector(h)>>,
    texture_defs |-> <<>>, patches |-> PatchTable, palette |-> "PLAYPAL", flats |-> <<>>] :
     lds \in UNION {{<<bad, GoodLinedef>>, <<GoodLinedef, bad>>} : bad \in BadLinedefs},
     h \in Heights}

\* Levels whose walls, floors and ceilings all carry one texture name:
\* one or two sectors, each bounded by a closed ring of one-sided linedefs
\* over the same n vertices.
nALL == <<65, 76, 76>>

SharedLevels ==
  {[vertices |-> PolyVertices(n),
    linedefs |-> [i \in 1..(n * nsec) |->
                    [start_vertex |-> (i - 1) % n, end_vertex |-> i % n,
                     right_sidedef |-> (i - 1) \div n, left_sidedef |-> NoSide]],
    sidedefs |-> [k \in 1..nsec |->
                    PairSide(Pad(nDash, NUL), Pad(nDash, NUL), Pad(nALL, NUL), k - 1)],
    sectors |-> [k \in 1..nsec |->
                   [floor_height |-> 24 * (k - 1), ceiling_height |-> 64 * k,
                    floor_texture |-> Pad(nALL, NUL), ceiling_texture |-> Pad(nALL, SP)]],
    texture_defs |-> <<>>, patches |-> PatchTable, palette |-> "PLAYPAL", flats |-> <<>>] :
     n \in 3..MaxPoly, nsec \in {1, 2}}

\* The level as the converter receives it: the palette in full.
WithPalette(level) == [level EXCEPT !.palette = LevelPalette(level.palette = "PLAYPAL")]

InitGeom ==
  /\ directory = <<>>
  /\ levels \in {<<level>> : level \in PairLevels \cup PolyLevels \cup MixedLevels \cup SharedLevels}
  /\ file = Idle
  /\ wad = [centerX2 |-> 0, centerY2 |-> 0]
  /\ textures = [class |-> "WADConverter", store |-> <<>>]
  /\ ret = Idle

\* The element accesses of the texture loading loop: the sector of every
\* sidedef that passes the test on its sector index.
LoadAccesses(level) ==
  {<<"sectors", level.sidedefs[i].sector, Len(level.sectors)>> :
     i \in {i \in 1..Len(level.sidedefs) : level.sidedefs[i].sector < Len(level.sectors)}}

\* createLevelGeometry(level): the centre is stored in the class, the
\* textures the level needs are built, then the two passes run.
CreateLevelGeometry ==
  /\ ret = Idle
  /\ LET level == WithPalette(levels[1])
         center == LevelCenter(level.vertices)
         st == LevelGeometry(level, center)
     IN /\ wad' = [centerX2 |-> center.x2, centerY2 |-> center.y2]
        /\ textures' = [textures EXCEPT !.store =
                          LoadWallTextures(LoadFlats(textures.store, level, 0), level, 0)]
        /\ ret' = [op |-> "createLevelGeometry", groups |-> st.groups,
                   sectorVertices |-> st.sectorVertices,
                   accesses |-> LoadAccesses(level) \cup st.accesses,
                   items |-> Items(st.groups)]
  /\ UNCHANGED <<directory, levels, file>>

NextGeom == CreateLevelGeometry

SpecGeom == InitGeom /\ [][NextGeom]_vars

\* ---- Reading the result of createLevelGeometry ----

Level == levels[1]

Done == ret.op = "createLevelGeometry"

\* The vertex and index data of the group of a texture name.
GroupVertices(name) == IF name \in DOMAIN ret.groups THEN ret.groups[name].vertices ELSE <<>>
GroupIndices(name) == IF name \in DOMAIN ret.groups THEN ret.groups[name].indices ELSE <<>>

\* The wall quads of a group that holds walls only: four vertices of five
\* values each, the height second in each vertex, bottom before top.
Quads(name) ==
  [k \in 1..(Len(GroupVertices(name)) \div 20) |->
     [bottom |-> GroupVertices(name)[20 * (k - 1) + 2],
      top |-> GroupVertices(name)[20 * (k - 1) + 7]]]

\* The number of distinct vertices on the first k edges of a ring of n.
PolyLevel == Level \in PolyLevels
BoundaryCount == IF Len(Level.linedefs) = Len(Level.vertices)
                 THEN Len(Level.vertices) ELSE Len(Level.linedefs) + 1

\* The triangle fan expected over m vertices numbered from base.
ExpectedFan(base, m, isFloor) ==
  [k \in 1..(3 * (m - 2)) |->
     LET i == ((k - 1) \div 3) + 1
         j == (k - 1) % 3
     IN IF j = 0 THEN base
        ELSE IF (j = 1) = isFloor THEN base + i ELSE base + i + 1]

\* C13: a sector with n >= 3 distinct boundary vertices gets n floor
\* vertices and n - 2 floor triangles (base, base+i, base+i+1), and the same
\* for the ceiling with the second and third index of every triangle
\* swapped; the square of 4 vertices gets one floor group and one ceiling
\* group of 4 vertices and 6 indices each.
C13_SectorFans ==
  (Done /\ PolyLevel /\ BoundaryCount >= 3) =>
    LET m == BoundaryCount
        ft == trimFixedString(Level.sectors[1].floor_texture)
        ct == trimFixedString(Level.sectors[1].ceiling_texture)
    IN /\ (ValidTextureName(ft) /\ ft # ct) =>
            /\ Len(GroupVertices(ft)) = 5 * m
            /\ GroupIndices(ft) = ExpectedFan(0, m, TRUE)
       /\ (ValidTextureName(ct) /\ ft # ct) =>
            /\ Len(GroupVertices(ct)) = 5 * m
            /\ GroupIndices(ct) = ExpectedFan(0, m, FALSE)
       /\ (ValidTextureName(ft) /\ ft = ct) =>
            /\ Len(GroupVertices(ft)) = 10 * m
            /\ GroupIndices(ft) = ExpectedFan(0, m, TRUE) \o ExpectedFan(m, m, FALSE)
       /\ (m = 4 /\ ft = nFLOOR /\ ct = nCEIL) =>
            /\ DOMAIN ret.groups \ {nMID} = {nFLOOR, nCEIL}
            /\ GroupIndices(nFLOOR) = <<0, 1, 2, 0, 2, 3>>
            /\ GroupIndices(nCEIL) = <<0, 2, 1, 0, 3, 2>>
            /\ \A k \in 1..4 : /\ GroupVertices(nFLOOR)[5 * (k - 1) + 2] = 0
                               /\ GroupVertices(nCEIL)[5 * (k - 1) + 2] = 64

C13_Witness ==
  /\ Done /\ PolyLevel
  /\ Len(Level.vertices) = 4 /\ Len(Level.linedefs) = 4
  /\ trimFixedString(Level.sectors[1].floor_texture) = nFLOOR
  /\ trimFixedString(Level.sectors[1].ceiling_texture) = nCEIL
  /\ Len(GroupIndices(nFLOOR)) = 6 /\ Len(GroupIndices(nCEIL)) = 6

PairLevel == Level \in PairLevels
MixedLevel == Level \in MixedLevels

Linedef == Level.linedefs[1]

\* The linedef's vertices and right side resolve, the right side to a
\* sector of the level.
RightResolved ==
  /\ VertexIndicesValid(Level, Linedef)
  /\ Linedef.right_sidedef # NoSide
  /\ Linedef.right_sidedef < Len(Level.sidedefs)
  /\ Level.sidedefs[Linedef.right_sidedef + 1].sector < Len(Level.sectors)

\* Both sides resolve to sectors of the level.
TwoSided ==
  /\ RightResolved
  /\ Linedef.left_sidedef # NoSide
  /\ Linedef.left_sidedef < Len(Level.sidedefs)
  /\ Level.sidedefs[Linedef.left_sidedef + 1].sector < Len(Level.sectors)

RightSide == Level.sidedefs[Linedef.right_sidedef + 1]
RightSector == Level.sectors[RightSide.sector + 1]
LeftSector == Level.sectors[Level.sidedefs[Linedef.left_sidedef + 1].sector + 1]

UpperName == trimFixedString(RightSide.upper_texture)
LowerName == trimFixedString(RightSide.lower_texture)
MiddleName == trimFixedString(RightSide.middle_texture)

\* C14: a two-sided linedef whose right floor is higher than its left
\* floor and whose right side has a lower texture gets exactly one lower
\* wall quad, from the left floor to the right floor, and no upper wall
\* quad when the two ceilings are equal.
C14_LowerWall ==
  (/\ Done /\ PairLevel /\ TwoSided
   /\ RightSector.floor_height > LeftSector.floor_height
   /\ ValidTextureName(LowerName))
    => /\ Quads(LowerName) = <<[bottom |-> LeftSector.floor_height,
                                top |-> RightSector.floor_height]>>
       /\ RightSector.ceiling_height = LeftSector.ceiling_height => Quads(nUP) = <<>>

C14_Witness ==
  /\ Done /\ PairLevel /\ TwoSided
  /\ LeftSector.floor_height = 0 /\ RightSector.floor_height = 24
  /\ RightSector.ceiling_height = LeftSector.ceiling_height
  /\ UpperName = nUP /\ LowerName = nLOW
  /\ Quads(nLOW) = <<[bottom |-> 0, top |-> 24]>>

\* C17: for a two-sided linedef an upper wall quad is made if and only if
\* the left ceiling is strictly higher than the right ceiling and the
\* right side's upper texture name is neither empty nor "-"; it spans from
\* the right ceiling to the left ceiling and lies in the group named by
\* the upper texture.
C17_UpperWall ==
  (Done /\ PairLevel /\ TwoSided) =>
    LET emitted == /\ LeftSector.ceiling_height > RightSector.ceiling_height
                   /\ UpperName # <<>> /\ UpperName # nDash
    IN /\ emitted => Quads(UpperName) = <<[bottom |-> RightSector.ceiling_height,
                                           top |-> LeftSector.ceiling_height]>>
       /\ ~emitted => Quads(nUP) = <<>>
       /\ Quads(nDash) = <<>> /\ Quads(<<>>) = <<>>

C17_Witness ==
  /\ Done /\ PairLevel /\ TwoSided
  /\ LeftSector.ceiling_height = 128 /\ RightSector.ceiling_height = 64
  /\ UpperName = nUP
  /\ Quads(nUP) = <<[bottom |-> 64, top |-> 128]>>

\* C18 as stated: with a middle texture on the right side, the middle wall
\* quad over [max of the floors, min of the ceilings] is made whenever the
\* two sectors' heights are identical or the interval is non-empty, and
\* not otherwise.
C18_MiddleWallIdenticalOrGap ==
  (Done /\ PairLevel /\ TwoSided /\ ValidTextureName(MiddleName)) =>
    LET bottom == Max(LeftSector.floor_height, RightSector.floor_height)
        top == Min(LeftSector.ceiling_height, RightSector.ceiling_height)
        identical == /\ LeftSector.floor_height = RightSector.floor_height
                     /\ LeftSector.ceiling_height = RightSector.ceiling_height
    IN IF identical \/ top > bottom
       THEN Quads(MiddleName) = <<[bottom |-> bottom, top |-> top]>>
       ELSE Quads(MiddleName) = <<>>

\* C18: with a middle texture on the right side, the middle wall quad over
\* [max of the floors, min of the ceilings] is made exactly when that
\* interval is non-empty (min of the ceilings above max of the floors),
\* identical sectors included.
C18_MiddleWallInGap ==
  (Done /\ PairLevel /\ TwoSided /\ ValidTextureName(MiddleName)) =>
    LET bottom == Max(LeftSector.floor_height, RightSector.floor_height)
        top == Min(LeftSector.ceiling_height, RightSector.ceiling_height)
    IN IF top > bottom
       THEN Quads(MiddleName) = <<[bottom |-> bottom, top |-> top]>>
       ELSE Quads(MiddleName) = <<>>

C18_Witness ==
  /\ Done /\ PairLevel /\ TwoSided /\ MiddleName = nMID
  /\ LeftSector.floor_height = 0 /\ RightSector.floor_height = 24
  /\ LeftSector.ceiling_height = 128 /\ RightSector.ceiling_height = 64
  /\ Quads(nMID) = <<[bottom |-> 24, top |-> 64]>>

\* Identical sectors whose ceiling is not above their floor: no quad.
C18_IdenticalWithoutGap ==
  /\ Done /\ PairLevel /\ TwoSided /\ MiddleName = nMID
  /\ LeftSector.floor_height = RightSector.floor_height
  /\ LeftSector.ceiling_height = RightSector.ceiling_height
  /\ RightSector.ceiling_height <= RightSector.floor_height
  /\ Quads(nMID) = <<>>

\* The groups that hold wall quads in the levels checked.
WallNames == {nUP, nLOW, nMID}

\* C19: every wall quad in a geometry group has top > bottom; a linedef
\* whose wall would have no height (a one-sided linedef of a sector whose
\* ceiling is not above its floor) adds no vertex and no index.
C19_WallsHaveHeight ==
  Done =>
    /\ \A name \in WallNames : \A k \in 1..Len(Quads(name)) :
         Quads(name)[k].top > Quads(name)[k].bottom
    /\ (/\ PairLevel /\ RightResolved /\ Linedef.left_sidedef = NoSide
        /\ RightSector.ceiling_height <= RightSector.floor_height)
         => \A name \in DOMAIN ret.groups :
              ret.groups[name].vertices = <<>> /\ ret.groups[name].indices = <<>>

C19_Witness ==
  /\ Done /\ PairLevel /\ RightResolved /\ Linedef.left_sidedef = NoSide
  /\ MiddleName = nMID
  /\ RightSector.ceiling_height = RightSector.floor_height
  /\ nMID \in DOMAIN ret.groups
  /\ ret.groups[nMID].vertices = <<>>

\* C20: the full-height wall quad (right sector's floor to ceiling, right
\* side's middle texture) is made for a linedef whose left side index is
\* 0xFFFF, and a linedef whose left side index is present but out of
\* range, or whose left side names an out-of-range sector, gets no wall.
C20_OneSidedOnlyWhenLeftAbsent ==
  (/\ Done /\ PairLevel /\ RightResolved /\ ValidTextureName(MiddleName)
   /\ RightSector.ceiling_height > RightSector.floor_height)
    => /\ Linedef.left_sidedef = NoSide =>
            Quads(MiddleName) = <<[bottom |-> RightSector.floor_height,
                                   top |-> RightSector.ceiling_height]>>
       /\ (/\ Linedef.left_sidedef # NoSide
           /\ \/ Linedef.left_sidedef >= Len(Level.sidedefs)
              \/ Level.sidedefs[Linedef.left_sidedef + 1].sector >= Len(Level.sectors))
            => \A name \in DOMAIN ret.groups : ret.groups[name].vertices = <<>>

\* A left side that names an out-of-range sector gets no wall.
C20_LeftSectorOutOfRange ==
  (/\ Done /\ PairLevel /\ RightResolved
   /\ Linedef.left_sidedef # NoSide /\ Linedef.left_sidedef < Len(Level.sidedefs)
   /\ Level.sidedefs[Linedef.left_sidedef + 1].sector >= Len(Level.sectors))
    => \A name \in DOMAIN ret.groups : ret.groups[name].vertices = <<>>

\* C16: every element access of createLevelGeometry uses an index below
\* the collection's size; a linedef with an out-of-range vertex or an
\* out-of-range or absent right side adds no wall quad and no sector
\* vertex, and the linedefs before and after it are processed.
C16_NoOutOfRangeAccess ==
  Done =>
    /\ \A a \in ret.accesses : a[2] < a[3]
    /\ (PairLevel /\ ~RightResolved) =>
         /\ \A name \in DOMAIN ret.groups : ret.groups[name].vertices = <<>>
         /\ \A i \in 1..Len(ret.sectorVertices) : ret.sectorVertices[i] = <<>>
    /\ MixedLevel =>
         /\ ret.sectorVertices = <<(<<0, 1>>)>>
         /\ IF Level.sectors[1].ceiling_height > Level.sectors[1].floor_height
            THEN Quads(nMID) = <<[bottom |-> Level.sectors[1].floor_height,
                                  top |-> Level.sectors[1].ceiling_height]>>
            ELSE Quads(nMID) = <<>>

C16_Witness ==
  /\ Done /\ MixedLevel
  /\ Level.linedefs[1].start_vertex >= Len(Level.vertices)
  /\ Len(Quads(nMID)) = 1
  /\ <<"vertices", 1, 2>> \in ret.accesses

\* The linedefs the first pass accepts for sector i (0-based): vertices in
\* range, right side present and in range, and that side's sector is i.
FacingLinedefs(i) ==
  {l \in 1..Len(Level.linedefs) :
     /\ Level.linedefs[l].start_vertex < Len(Level.vertices)
     /\ Level.linedefs[l].end_vertex < Len(Level.vertices)
     /\ Level.linedefs[l].right_sidedef # NoSide
     /\ Level.linedefs[l].right_sidedef < Len(Level.sidedefs)
     /\ Level.sidedefs[Level.linedefs[l].right_sidedef + 1].sector = i}

FacingVertices(i) ==
  UNION {{Level.linedefs[l].start_vertex, Level.linedefs[l].end_vertex} : l \in FacingLinedefs(i)}

\* The groups of the floor and ceiling texture names of the levels checked.
FlatNames == {nFLOOR, nCEIL}

\* C21: the vertex list handed to the floor and ceiling construction of a
\* sector is the duplicate-free set of start and end vertex indices of the
\* linedefs whose right side faces the sector; a sector with fewer than 3
\* such vertices adds nothing to a floor or ceiling group.
C21_SectorBoundaryVertices ==
  Done =>
    /\ \A i \in 0..(Len(Level.sectors) - 1) :
         /\ Range(ret.sectorVertices[i + 1]) = FacingVertices(i)
         /\ Len(ret.sectorVertices[i + 1]) = Cardinality(FacingVertices(i))
    /\ (\A i \in 0..(Len(Level.sectors) - 1) : Cardinality(FacingVertices(i)) < 3)
         => \A name \in FlatNames : GroupVertices(name) = <<>> /\ GroupIndices(name) = <<>>
    /\ (PolyLevel /\ trimFixedString(Level.sectors[1].floor_texture) = nFLOOR
                  /\ trimFixedString(Level.sectors[1].ceiling_texture) = nCEIL
                  /\ Cardinality(FacingVertices(0)) >= 3)
         => /\ Len(GroupVertices(nFLOOR)) = 5 * Cardinality(FacingVertices(0))
            /\ Len(GroupVertices(nCEIL)) = 5 * Cardinality(FacingVertices(0))

C21_Witness ==
  /\ Done /\ PolyLevel
  /\ Len(Level.linedefs) = 1
  /\ trimFixedString(Level.sectors[1].floor_texture) = nFLOOR
  /\ ret.sectorVertices[1] = <<1, 2>>
  /\ nFLOOR \in DOMAIN ret.groups /\ GroupVertices(nFLOOR) = <<>>

C21_WitnessRing ==
  /\ Done /\ PolyLevel
  /\ Len(Level.linedefs) = 4 /\ Level.linedefs[1].start_vertex = 1
  /\ ret.sectorVertices[1] = <<0, 1, 2, 3>>

\* The distinct vertex indices of sector 0 in the order the first pass
\* collected them.
RECURSIVE FirstOccurrences(_)
FirstOccurrences(seq) ==
  IF seq = <<>> THEN <<>>
  ELSE LET front == FirstOccurrences(SubSeq(seq, 1, Len(seq) - 1))
       IN IF seq[Len(seq)] \in Range(front) THEN front ELSE Append(front, seq[Len(seq)])

RECURSIVE CollectedFrom(_)
CollectedFrom(l) ==
  IF l > Len(Level.linedefs) THEN <<>>
  ELSE (IF l \in FacingLinedefs(0)
        THEN <<Level.linedefs[l].start_vertex, Level.linedefs[l].end_vertex>>
        ELSE <<>>) \o CollectedFrom(l + 1)

CollectionOrder == FirstOccurrences(CollectedFrom(1))

\* The x and z written for fan vertex k of a group and those of a level vertex.
FanPosition(name, k) ==
  <<GroupVertices(name)[5 * (k - 1) + 1], GroupVertices(name)[5 * (k - 1) + 3]>>
VertexPosition(index) ==
  <<[n |-> 2 * Level.vertices[index + 1].x - wad.centerX2, d |-> 2],
    [n |-> -(2 * Level.vertices[index + 1].y - wad.centerY2), d |-> 2]>>

\* C22: the fan of a sector is anchored at the first collected vertex, the
\* start vertex of the first linedef whose right side faces the sector,
\* and the other fan vertices follow in collection order.
C22_FanFromFirstCollected ==
  (/\ Done /\ PolyLevel /\ trimFixedString(Level.sectors[1].floor_texture) = nFLOOR
   /\ Len(CollectionOrder) >= 3)
    => /\ CollectionOrder[1] = Level.linedefs[1].start_vertex
       /\ \A k \in 1..Len(CollectionOrder) :
            FanPosition(nFLOOR, k) = VertexPosition(CollectionOrder[k])

\* The fan as built: over the vertex indices in ascending order.
C22_FanFromLowestIndex ==
  (/\ Done /\ PolyLevel /\ trimFixedString(Level.sectors[1].floor_texture) = nFLOOR
   /\ Len(CollectionOrder) >= 3)
    => \A k \in 1..Len(CollectionOrder) :
         FanPosition(nFLOOR, k) = VertexPosition(Sorted(CollectionOrder)[k])

(***************************************************************************)
(* WAD::readPatch                                                          *)
(***************************************************************************)
PatchHeaderSize == 8
EndOfColumn == 255

\* How far past the lump's last byte the reader gets before the process is
\* stopped; any read past the end yields the byte garbage.
MaxOverrun == 8

ByteAt(data, i, garbage) == IF i < Len(data) THEN data[i + 1] ELSE garbage

Word16(data, i, garbage) == ByteAt(data, i, garbage) + 256 * ByteAt(data, i + 1, garbage)

\* A 32-bit offset; those of 2^30 and more, all far past the end of any
\* lump read here, are kept below 2^30.
Word32(data, i, garbage) ==
  Word16(data, i, garbage) + 65536 * Min(Word16(data, i + 2, garbage), 16383)

\* The offsets among I that lie past the end of the lump.
PastEnd(data, I) == {i \in I : i >= Len(data)}

\* One run of a column: topdelta, length, a padding byte, the pixels and a
\* padding byte.  patch.pixels[destIndex + 0..3] is written whatever
\* destIndex is: a write that falls inside the raster changes it, one that
\* falls outside is a write to memory the raster does not own.
PatchRun(data, garbage, width, x, st) ==
  LET column == st.column
      topdelta == ByteAt(data, column, garbage)
      length == ByteAt(data, column + 1, garbage)
      dest(y) == ((topdelta + y) * width + x) * 4
      rows == 0..(length - 1)
      inside == {y \in rows : dest(y) + 3 < Len(st.pixels)}
      RowOf(i) == CHOOSE y \in inside : (i - 1) \div 4 = dest(y) \div 4
  IN [st EXCEPT
        !.pixels = [i \in 1..Len(st.pixels) |->
                      IF \E y \in inside : (i - 1) \div 4 = dest(y) \div 4
                      THEN IF (i - 1) % 4 = 3 THEN Opaque
                           ELSE ByteAt(data, column + 3 + RowOf(i), garbage)
                      ELSE st.pixels[i]],
        !.wildWrites = @ \cup {dest(y) : y \in rows \ inside},
        !.wildReads = @ \cup PastEnd(data, {column, column + 1}
                                             \cup {column + 3 + y : y \in 0..(length - 1)}),
        !.column = column + 4 + length]

\* "while (true)": the runs of column x, to the end-of-column byte.
RECURSIVE PatchColumn(_, _, _, _, _)
PatchColumn(data, garbage, width, x, st) ==
  IF st.column >= Len(data) + MaxOverrun THEN [st EXCEPT !.fault = TRUE]
  ELSE IF ByteAt(data, st.column, garbage) = EndOfColumn
       THEN [st EXCEPT !.wildReads = @ \cup PastEnd(data, {st.column}),
                       !.column = st.column + 1]
       ELSE PatchColumn(data, garbage, width, x, PatchRun(data, garbage, width, x, st))

\* "Process each column".
RECURSIVE PatchColumns(_, _, _, _, _)
PatchColumns(data, garbage, width, x, st) ==
  IF x >= width \/ st.fault THEN st
  ELSE LET at == PatchHeaderSize + 4 * x
           columnOffset == Word32(data, at, garbage)
       IN PatchColumns(data, garbage, width, x + 1,
            PatchColumn(data, garbage, width, x,
              [st EXCEPT !.column = columnOffset,
                         !.wildReads = @ \cup PastEnd(data, at..(at + 3))]))

\* readPatch on the bytes readLump returned: the PatchData, and what the
\* call read and wrote outside the lump and the raster.
readPatch(data, garbage) ==
  LET width == Word16(data, 0, garbage)
      height == Word16(data, 2, garbage)
  IN [width |-> width, height |-> height] @@
     PatchColumns(data, garbage, width, 0,
       [pixels |-> [i \in 1..(width * height * 4) |-> 0], column |-> 0,
        wildReads |-> PastEnd(data, 0..3), wildWrites |-> {}, fault |-> FALSE])

\* ---- Patch lumps ----

RECURSIVE Flatten(_)
Flatten(seqs) == IF seqs = <<>> THEN <<>> ELSE Head(seqs) \o Flatten(Tail(seqs))

EncodeRun(run) == <<run.topdelta, Len(run.pixels), 0>> \o run.pixels \o <<0>>

EncodeColumn(runs) == Flatten([k \in 1..Len(runs) |-> EncodeRun(runs[k])]) \o <<EndOfColumn>>

Bytes16(n) == <<n % 256, n \div 256>>
Bytes32(n) == <<n % 256, (n \div 256) % 256, 0, 0>>

EncodePatch(width, height, columns) ==
  LET cols == [x \in 1..width |-> EncodeColumn(columns[x])]
      start(x) == PatchHeaderSize + 4 * width + Len(Flatten(SubSeq(cols, 1, x - 1)))
  IN Bytes16(width) \o Bytes16(height) \o <<0, 0, 0, 0>>
       \o Flatten([x \in 1..width |-> Bytes32(start(x))]) \o Flatten(cols)

\* The columns of a patch of a given height: no run, one run of one or two
\* pixels starting at any row up to the height (so some runs pass the last
\* row), and two runs of one pixel.
ColumnsOf(height) ==
  {<<>>, << [topdelta |-> 0, pixels |-> <<5>>], [topdelta |-> 1, pixels |-> <<6>>] >>}
  \cup {<< [topdelta |-> t, pixels |-> px] >> : t \in 0..height, px \in {<<5>>, <<5, 6>>}}

PatchShapes == {<<1, 1>>, <<2, 1>>, <<1, 2>>, <<2, 2>>}

\* A lump as stored, whole or cut short: by its last byte, or to its
\* header and the first column offset.
PatchLumps ==
  UNION {{[width |-> s[1], height |-> s[2], columns |-> cols, cut |-> cut,
           data |-> LET whole == EncodePatch(s[1], s[2], cols)
                    IN IF cut = "last" THEN SubSeq(whole, 1, Len(whole) - 1)
                       ELSE IF cut = "offsets" THEN SubSeq(whole, 1, PatchHeaderSize + 4)
                       ELSE whole] :
            cols \in [1..s[1] -> ColumnsOf(s[2])], cut \in {"none", "last", "offsets"}} :
         s \in PatchShapes}

GarbageBytes == {0, 1, EndOfColumn}

InitPatch ==
  /\ directory = <<>>
  /\ levels = <<>>
  /\ file \in PatchLumps
  /\ wad = Idle
  /\ textures = Idle
  /\ ret = Idle

\* readPatch(offset, size, name).  A call that read or wrote out of bounds
\* has undefined behaviour: it may stop the process or return.
ReadPatch ==
  /\ ret = Idle
  /\ \E garbage \in GarbageBytes, stopped \in BOOLEAN :
       LET r == readPatch(file.data, garbage)
           wild == r.wildReads # {} \/ r.wildWrites # {}
       IN /\ stopped => wild
          /\ r.fault => stopped
          /\ ret' = [op |-> "readPatch",
                     patch |-> [width |-> r.width, height |-> r.height, pixels |-> r.pixels],
                     wildReads |-> r.wildReads, wildWrites |-> r.wildWrites,
                     outcome |-> IF stopped THEN "fault" ELSE "returned"]
  /\ UNCHANGED <<directory, levels, file, wad, textures>>

\* compositePatch of the patch just read, at the origin of a raster of the
\* patch's size.
CompositeReadPatch ==
  /\ ret.op = "readPatch" /\ ret.outcome = "returned"
  /\ LET a == [texWidth |-> ret.patch.width, texHeight |-> ret.patch.height,
               patch |-> ret.patch, originX |-> 0, originY |-> 0, hasPalette |-> TRUE]
     IN ret' = [op |-> "compositePatch", class |-> "WADConverter", a |-> a,
                before |-> FilledRaster(a.texWidth, a.texHeight, Gray),
                after |-> compositePatch(FilledRaster(a.texWidth, a.texHeight, Gray),
                                         CallArgs(a))]
  /\ UNCHANGED <<directory, levels, file, wad, textures>>

NextPatch == ReadPatch \/ CompositeReadPatch

SpecPatch == InitPatch /\ [][NextPatch]_vars

\* A lump stored whole whose runs stay inside the patch's rows.
WellFormed ==
  /\ file.cut = "none"
  /\ \A x \in 1..file.width : \A k \in 1..Len(file.columns[x]) :
       file.columns[x][k].topdelta + Len(file.columns[x][k].pixels) <= file.height

\* C23: readPatch tests every destination index against the raster before
\* writing and skips the pixels outside it, reads no column offset and no
\* run byte past the end of the lump, and returns the patch with the
\* pixels that do fit.
C23_ReadPatchBoundsChecked ==
  ret.op = "readPatch" =>
    /\ ret.wildWrites = {}
    /\ ret.wildReads = {}
    /\ ret.outcome = "returned"

\* A whole lump, one run passing the last row: a write outside the raster.
C23_RunPastLastRow ==
  /\ ret.op = "readPatch"
  /\ file.cut = "none" /\ ~WellFormed
  /\ ret.wildReads = {} /\ ret.wildWrites # {}

\* A lump cut short: a read past its end.
C23_ReadPastLump ==
  /\ ret.op = "readPatch"
  /\ file.cut = "offsets" /\ file.width = 2
  /\ ret.wildReads # {}

\* On well-formed lumps readPatch stays in bounds.
C23_WellFormedInBounds ==
  (ret.op = "readPatch" /\ WellFormed) =>
    ret.wildWrites = {} /\ ret.wildReads = {} /\ ret.outcome = "returned"

\* The palette index the lump gives for column x, row y (0-based): the
\* pixel of the run that covers the row, 0 where no run does.
DecodedIndex(x, y) ==
  LET runs == file.columns[x + 1]
      covering == {k \in 1..Len(runs) :
                     y \in runs[k].topdelta..(runs[k].topdelta + Len(runs[k].pixels) - 1)}
  IN IF covering = {} THEN 0
     ELSE LET k == SetMax(covering) IN runs[k].pixels[y - runs[k].topdelta + 1]

\* C29: the palette index compositePatch reads for patch pixel (x, y) is
\* the index readPatch decoded for column x, row y, for every x < width
\* and y < height, and a pixel no run covers reads as index 0.
C29_CompositeReadsDecodedIndex ==
  (ret.op = "compositePatch" /\ WellFormed) =>
    \A x \in 0..(file.width - 1), y \in 0..(file.height - 1) :
      SourceIndexAt(ret.a, x, y) = DecodedIndex(x, y)

\* What compositePatch reads at y * width + x is byte (y * width + x) % 4
\* of the RGBA pixel (y * width + x) \div 4 that readPatch wrote.
C29_CompositeReadsRGBAByte ==
  (ret.op = "compositePatch" /\ WellFormed) =>
    \A x \in 0..(file.width - 1), y \in 0..(file.height - 1) :
      LET n == y * file.width + x
          px == DecodedIndex((n \div 4) % file.width, (n \div 4) \div file.width)
          covered == \E k \in 1..Len(file.columns[((n \div 4) % file.width) + 1]) :
                       LET run == file.columns[((n \div 4) % file.width) + 1][k]
                       IN ((n \div 4) \div file.width)
                            \in run.topdelta..(run.topdelta + Len(run.pixels) - 1)
      IN SourceIndexAt(ret.a, x, y) = IF ~covered THEN 0
                                      ELSE IF n % 4 = 3 THEN Opaque ELSE px

\* The layouts agree on a patch of one pixel.
C29_SinglePixelAgrees ==
  /\ ret.op = "compositePatch" /\ WellFormed
  /\ file.width = 1 /\ file.height = 1
  /\ DecodedIndex(0, 0) = 5 /\ SourceIndexAt(ret.a, 0, 0) = 5

\* The level list one call of processWAD builds from the directory.
LevelsOfOneCall == processLevels(directory, 0, <<>>)

\* C26: processWAD is repeatable: after a second call on the same WAD the
\* level list equals the list after the first call, same length and same
\* names in the same order.
C26_ProcessWadRepeatable ==
  wad.processed >= 1 =>
    /\ Len(levels) = Len(LevelsOfOneCall)
    /\ \A i \in 1..Len(levels) : levels[i].name = LevelsOfOneCall[i].name

\* What the calls do: each appends the levels of the directory once more.
C26_EveryCallAppends ==
  /\ Len(levels) = wad.processed * Len(LevelsOfOneCall)
  /\ \A i \in 1..Len(levels) :
       levels[i] = LevelsOfOneCall[((i - 1) % Len(LevelsOfOneCall)) + 1]

\* Two calls on a directory with a level marker.
C26_SecondCall ==
  /\ wad.processed = 2
  /\ Len(LevelsOfOneCall) = 1
  /\ Len(levels) = 2

(***************************************************************************)
(* createLevelGeometry and getPlayerStartPosition on two levels            *)
(***************************************************************************)
\* Levels with a player start at (32, 16), one linedef and one sector of
\* floor height 24; index 2 is out of range for the vertices, 1 for the
\* sidedefs and the sectors.
StartLevel(vertices, start, right, sector, hps) ==
  [vertices |-> vertices,
   linedefs |-> <<[start_vertex |-> start, end_vertex |-> 1,
                   right_sidedef |-> right, left_sidedef |-> NoSide]>>,
   sidedefs |-> <<PairSide(Pad(nDash, NUL), Pad(nDash, NUL), Pad(nMID, NUL), sector)>>,
   sectors |-> <<PairSector([floor_height |-> 24, ceiling_height |-> 64])>>,
   texture_defs |-> <<>>, patches |-> <<>>, palette |-> "none", flats |-> <<>>,
   has_player_start |-> hps, player_start |-> [type |-> PlayerStartType, x |-> 32, y |-> 16]]

StartLevels ==
  {StartLevel(vs, start, right, sector, hps) :
     vs \in {<<[x |-> 0, y |-> 0], [x |-> 64, y |-> 32]>>,
             <<[x |-> 0, y |-> 0], [x |-> 128, y |-> 64]>>},
     start \in {0, 2}, right \in {0, 1, NoSide}, sector \in {0, 1}, hps \in BOOLEAN}

OtherLevel == StartLevel(<<[x |-> 0, y |-> 0], [x |-> 128, y |-> 64]>>, 0, 0, 0, TRUE)

\* wad holds the statics centerX and centerY (doubled), 0.0f at start, and
\* the index of the level of the latest createLevelGeometry call (0: none).
InitCenter ==
  /\ directory = <<>>
  /\ levels \in {<<level, OtherLevel>> : level \in StartLevels}
  /\ file = Idle
  /\ wad = [centerX2 |-> 0, centerY2 |-> 0, last |-> 0]
  /\ textures = [class |-> "WADConverter", store |-> <<>>]
  /\ ret = Idle

CreateLevelGeometryOf(k) ==
  /\ LET level == WithPalette(levels[k])
         center == LevelCenter(level.vertices)
         st == LevelGeometry(level, center)
     IN /\ wad' = [centerX2 |-> center.x2, centerY2 |-> center.y2, last |-> k]
        /\ textures' = [textures EXCEPT !.store =
                          LoadWallTextures(LoadFlats(textures.store, level, 0), level, 0)]
        /\ ret' = [op |-> "createLevelGeometry", level |-> k, groups |-> st.groups,
                   sectorVertices |-> st.sectorVertices,
                   accesses |-> LoadAccesses(level) \cup st.accesses,
                   items |-> Items(st.groups)]
  /\ UNCHANGED <<directory, levels, file>>

\* getPlayerStartPosition(levels[k]).  A call that read an element out of
\* range has undefined behaviour: it may stop the process or return.
GetPlayerStartPositionOf(k) ==
  /\ \E inSector \in SUBSET {0}, stopped \in BOOLEAN :
       LET res == getPlayerStartPosition(levels[k],
                    [x2 |-> wad.centerX2, y2 |-> wad.centerY2], inSector)
       IN /\ stopped => \E a \in res.accesses : a[2] >= a[3]
          /\ ret' = [op |-> "getPlayerStartPosition", level |-> k, res |-> res,
                     centerBefore |-> wad,
                     outcome |-> IF stopped THEN "fault" ELSE "returned"]
  /\ UNCHANGED <<directory, levels, file, wad, textures>>

NextCenter ==
  \/ \E k \in {1, 2} : CreateLevelGeometryOf(k)
  \/ \E k \in {1, 2} : GetPlayerStartPositionOf(k)

SpecCenter == InitCenter /\ [][NextCenter]_vars

\* C25: getPlayerStartPosition tests every index before it uses it: a
\* linedef whose right sidedef, sidedef sector, start vertex or end vertex
\* index is out of range is never used to index vertices, sidedefs or
\* sectors, and the function returns.
C25_PlayerStartIndicesChecked ==
  ret.op = "getPlayerStartPosition" =>
    /\ \A a \in ret.res.accesses : a[2] < a[3]
    /\ ret.outcome = "returned"

\* The sidedef and sector indices are tested.
C25_SidesAndSectorsChecked ==
  ret.op = "getPlayerStartPosition" =>
    \A a \in ret.res.accesses : a[1] \in {"sidedefs", "sectors"} => a[2] < a[3]

\* A linedef with valid sides and a start vertex out of range: read.
C25_VertexOutOfRange ==
  /\ ret.op = "getPlayerStartPosition"
  /\ <<"vertices", 2, 2>> \in ret.res.accesses
  /\ <<"sectors", 0, 1>> \in ret.res.accesses

\* C28: getPlayerStartPosition(L) returns x and z recentred on the middle of
\* the bounding box of L's own vertices, whatever ran before: with or
\* without an earlier createLevelGeometry call, for L or for another level.
C28_RecentredOnOwnLevel ==
  (ret.op = "getPlayerStartPosition" /\ ~ret.res.null) =>
    LET level == levels[ret.level]
        center == LevelCenter(level.vertices)
    IN /\ ret.res.x = [n |-> 2 * level.player_start.x - center.x2, d |-> 2]
       /\ ret.res.z = [n |-> -(2 * level.player_start.y - center.y2), d |-> 2]

\* What holds: the result is right after createLevelGeometry for the same
\* level, or for a level with the same bounding box.
C28_RecentredAfterOwnGeometry ==
  (/\ ret.op = "getPlayerStartPosition" /\ ~ret.res.null
   /\ ret.centerBefore.last # 0
   /\ LevelCenter(levels[ret.centerBefore.last].vertices)
        = LevelCenter(levels[ret.level].vertices))
    => LET level == levels[ret.level]
           center == LevelCenter(level.vertices)
       IN /\ ret.res.x = [n |-> 2 * level.player_start.x - center.x2, d |-> 2]
          /\ ret.res.z = [n |-> -(2 * level.player_start.y - center.y2), d |-> 2]

\* The call for level 1 after createLevelGeometry for level 2, the two
\* levels with different bounding boxes.
C28_AfterOtherLevel ==
  /\ ret.op = "getPlayerStartPosition" /\ ~ret.res.null
  /\ ret.level = 1 /\ ret.centerBefore.last = 2
  /\ LevelCenter(levels[1].vertices) # LevelCenter(levels[2].vertices)
  /\ ret.res.x = [n |-> 2 * 32 - 128, d |-> 2]

\* The state of the two passes after the first i linedefs.
AfterLinedefs(i) ==
  FirstPass([sectorVertices |-> [k \in 1..Len(Level.sectors) |-> <<>>],
             groups |-> <<>>, accesses |-> {}],
            [Level EXCEPT !.linedefs = SubSeq(@, 1, i)],
            LevelCenter(Level.vertices), 0)

\* ... and after all linedefs and the first j sectors.
RECURSIVE AfterSectors(_)
AfterSectors(j) ==
  IF j = 0 THEN AfterLinedefs(Len(Level.linedefs))
  ELSE SectorStep(AfterSectors(j - 1), Level, j - 1, LevelCenter(Level.vertices))

GroupsWellFormed(groups) ==
  \A name \in DOMAIN groups :
    /\ Len(groups[name].vertices) % 5 = 0
    /\ Len(groups[name].indices) % 3 = 0
    /\ \A k \in 1..Len(groups[name].indices) :
         /\ groups[name].indices[k] >= 0
         /\ groups[name].indices[k] < Len(groups[name].vertices) \div 5

nPLAYPAL == <<80, 76, 65, 89, 80, 65, 76>>
nTEXTURE1 == <<84, 69, 88, 84, 85, 82, 69, 49>>
nTEXTURE2 == <<84, 69, 88, 84, 85, 82, 69, 50>>
nP1_START == <<80, 49, 95, 83, 84, 65, 82, 84>>
nP1_END == <<80, 49, 95, 69, 78, 68>>
nP2_START == <<80, 50, 95, 83, 84, 65, 82, 84>>
nP2_END == <<80, 50, 95, 69, 78, 68>>
nP3_START == <<80, 51, 95, 83, 84, 65, 82, 84>>
nP3_END == <<80, 51, 95, 69, 78, 68>>
nWALL00_1 == <<87, 65, 76, 76, 48, 48, 95, 49>>
nDOOR2 == <<68, 79, 79, 82, 50>>

\* "Define all possible patch sections".
PatchSections ==
  << [start |-> nP1_START, end |-> nP1_END],
     [start |-> nP2_START, end |-> nP2_END],
     [start |-> nP3_START, end |-> nP3_END] >>

\* std::string name(directory_[i].name, 8) with its trailing spaces popped:
\* all 8 bytes, NULs included.
FieldString(field) == PopBack(field, {SP})

\* "Find section indices": startIndex and endIndex stay 0 until a
\* directory name equals the marker; the loop stops at the end marker.
RECURSIVE SectionIndices(_, _, _, _)
SectionIndices(dir, section, i, st) ==
  IF i >= Len(dir) THEN st
  ELSE LET name == FieldString(dir[i + 1].name)
           st1 == IF name = section.start THEN [st EXCEPT !.startIndex = i] ELSE st
       IN IF name = section.end THEN [st1 EXCEPT !.endIndex = i]
          ELSE SectionIndices(dir, section, i + 1, st1)

\* requiredPatches: the indices below patchNames.size() that a texture uses.
RequiredPatches(allTextures, patchNames) ==
  {p \in 0..(Len(patchNames) - 1) :
     \E t \in 1..Len(allTextures) : \E j \in 1..Len(allTextures[t].patches) :
       allTextures[t].patches[j].patch_num = p}

\* The PatchData readPatch returns for the lump of a directory entry: here
\* every patch lump holds one pixel, whose palette index is the entry's
\* position in the file.
PatchOfLump(filepos, patchName) ==
  [name |-> patchName, width |-> 1, height |-> 1,
   pixels |-> readPatch(EncodePatch(1, 1,
                 << << [topdelta |-> 0, pixels |-> <<filepos>>] >> >>), 0).pixels]

\* The patch of PNAMES index p pushed at the end of allPatches.
PushPatch(st, p, patch) ==
  [allPatches |-> Append(st.allPatches, patch), patchLoaded |-> st.patchLoaded \cup {p}]

\* "Load required patches from each section": the lumps strictly between
\* the markers, each given to the first required patch name not loaded yet
\* that equals its name.
RECURSIVE LoadSection(_, _, _, _, _, _)
LoadSection(dir, patchNames, required, i, endIndex, st) ==
  IF i >= endIndex THEN st
  ELSE LET patchName == FieldString(dir[i + 1].name)
           matching == {p \in required \ st.patchLoaded : patchNames[p + 1] = patchName}
       IN LoadSection(dir, patchNames, required, i + 1, endIndex,
            IF matching = {} THEN st
            ELSE PushPatch(st, SetMin(matching), PatchOfLump(dir[i + 1].filepos, patchName)))

RECURSIVE LoadSections(_, _, _, _, _)
LoadSections(dir, patchNames, required, s, st) ==
  IF s > Len(PatchSections) THEN st
  ELSE LET section == PatchSections[s]
           found == findLump(dir, section.start, 0).found /\ findLump(dir, section.end, 0).found
           at == SectionIndices(dir, section, 0, [startIndex |-> 0, endIndex |-> 0])
       IN LoadSections(dir, patchNames, required, s + 1,
            IF found
            THEN LoadSection(dir, patchNames, required, at.startIndex + 1, at.endIndex, st)
            ELSE st)

\* "If we still have missing patches, try loading directly by name".
RECURSIVE LoadDirect(_, _, _, _, _)
LoadDirect(dir, patchNames, required, p, st) ==
  IF p >= Len(patchNames) THEN st
  ELSE LET r == findLump(dir, patchNames[p + 1], 0)
       IN LoadDirect(dir, patchNames, required, p + 1,
            IF p \notin st.patchLoaded /\ p \in required /\ r.found
            THEN PushPatch(st, p, PatchOfLump(r.offset, patchNames[p + 1]))
            ELSE st)

\* processWAD before its level loop: what every level is given.  archive
\* holds what readTextureDefs and readPatchNames decode from their lumps.
LoadAssets(dir, archive) ==
  LET allTextures == (IF findLump(dir, nTEXTURE1, 0).found THEN archive.texture1 ELSE <<>>)
                       \o (IF findLump(dir, nTEXTURE2, 0).found THEN archive.texture2 ELSE <<>>)
      hasNames == findLump(dir, nPNAMES, 0).found
      patchNames == IF hasNames THEN archive.pnames ELSE <<>>
      required == RequiredPatches(allTextures, patchNames)
      empty == [allPatches |-> <<>>, patchLoaded |-> {}]
      fromSections == LoadSections(dir, patchNames, required, 1, empty)
      loaded == IF Cardinality(fromSections.patchLoaded) < Cardinality(required)
                THEN LoadDirect(dir, patchNames, required, 0, fromSections)
                ELSE fromSections
  IN [texture_defs |-> allTextures,
      patches |-> IF hasNames THEN loaded.allPatches ELSE <<>>,
      patch_names |-> patchNames,
      palette |-> IF findLump(dir, nPLAYPAL, 0).found THEN "PLAYPAL" ELSE "none"]

\* The Level of a marker with the records its lumps decode to (archive
\* holds them) and the assets.  No statement of processWAD assigns
\* level.flats: it stays the empty vector of "Level level;".
AssetLevel(made, assets, archive) ==
  [name |-> made.name,
   vertices |-> SubSeq(archive.vertices, 1, made.vertices),
   linedefs |-> SubSeq(archive.linedefs, 1, made.linedefs),
   sidedefs |-> SubSeq(archive.sidedefs, 1, made.sidedefs),
   sectors |-> SubSeq(archive.sectors, 1, made.sectors),
   texture_defs |-> assets.texture_defs, patches |-> assets.patches,
   patch_names |-> assets.patch_names, palette |-> assets.palette,
   flats |-> <<>>]

\* ---- Archives ----

\* A directory: the lumps one after the other, a flat lump of 4096 bytes.
AssetDirectory(fields) ==
  [i \in 1..Len(fields) |->
     [name |-> fields[i], filepos |-> i,
      size |-> IF trimFixedString(fields[i]) = nFLOOR THEN TOTAL_PIXELS
               ELSE OneRecord(fields[i])]]

\* PLAYPAL, TEXTURE1, PNAMES, then the patch lumps (inside P1_START and
\* P1_END, the end marker padded with NULs or with spaces and NULs both),
\* then the flat FLOOR or none, then the level E1M1 with one sidedef and
\* one sector.
AssetFields ==
  {<<Pad(nPLAYPAL, NUL), nTEXTURE1, Pad(nPNAMES, NUL)>>
     \o (IF markers = "none" THEN <<>> ELSE <<nP1_START>>)
     \o patchLumps
     \o (IF markers = "none" THEN <<>>
         ELSE IF markers = "nul" THEN <<Pad(nP1_END, NUL)>>
         ELSE <<Pad(nP1_END, SP), Pad(nP1_END, NUL)>>)
     \o flat
     \o <<Pad(nE1M1, NUL), nSIDEDEFS, Pad(nSECTORS, NUL)>> :
       markers \in {"none", "nul", "both"},
       patchLumps \in {<<>>, <<nWALL00_1>>, <<Pad(nDOOR2, NUL)>>,
                       <<nWALL00_1, Pad(nDOOR2, NUL)>>, <<Pad(nDOOR2, NUL), nWALL00_1>>,
                       <<Pad(nDOOR2, SP), nWALL00_1, Pad(nDOOR2, NUL)>>},
       flat \in {<<>>, <<Pad(nFLOOR, NUL)>>}}

\* What the lumps decode to: two patch names in either order, one texture
\* WALL of 2 x 1 with one or two placements, the level's sidedef and sector.
Archives ==
  {[pnames |-> pn,
    texture1 |-> <<[name |-> Pad(nWALL, NUL), width |-> 2, height |-> 1,
                    patches |-> [j \in 1..Len(nums) |->
                                   [origin_x |-> j - 1, origin_y |-> 0, patch_num |-> nums[j]]]]>>,
    texture2 |-> <<>>,
    vertices |-> <<>>, linedefs |-> <<>>,
    sidedefs |-> <<PairSide(Pad(nDash, NUL), Pad(nDash, NUL), Pad(nWALL, NUL), 0)>>,
    sectors |-> <<[floor_height |-> 0, ceiling_height |-> 64,
                   floor_texture |-> Pad(nFLOOR, NUL), ceiling_texture |-> Pad(nDash, NUL)]>>] :
     pn \in {<<nWALL00_1, nDOOR2>>, <<nDOOR2, nWALL00_1>>},
     nums \in {<<0>>, <<1>>, <<0, 1>>, <<2>>}}

InitAssets ==
  /\ directory \in {AssetDirectory(f) : f \in AssetFields}
  /\ levels = <<>>
  /\ file \in Archives
  /\ wad = [centerX2 |-> 0, centerY2 |-> 0]
  /\ textures = [class |-> "WADConverter", store |-> <<>>]
  /\ ret = Idle

\* processWAD(): the assets are loaded, then a Level is appended for every
\* level marker.
ProcessWADAssets ==
  /\ levels = <<>>
  /\ LET assets == LoadAssets(directory, file)
         made == processLevels(directory, 0, <<>>)
     IN levels' = [i \in 1..Len(made) |-> AssetLevel(made[i], assets, file)]
  /\ ret' = [op |-> "processWAD"]
  /\ UNCHANGED <<directory, file, wad, textures>>

\* createLevelGeometry(levels_[0]) after processWAD.
CreateAssetGeometry ==
  /\ levels # <<>>
  /\ ret.op = "processWAD"
  /\ LET level == WithPalette(levels[1])
         center == LevelCenter(level.vertices)
         st == LevelGeometry(level, center)
     IN /\ wad' = [centerX2 |-> center.x2, centerY2 |-> center.y2]
        /\ textures' = [textures EXCEPT !.store =
                          LoadWallTextures(LoadFlats(textures.store, level, 0), level, 0)]
        /\ ret' = [op |-> "createLevelGeometry", groups |-> st.groups,
                   sectorVertices |-> st.sectorVertices,
                   accesses |-> LoadAccesses(level) \cup st.accesses,
                   items |-> Items(st.groups)]
  /\ UNCHANGED <<directory, levels, file>>

NextAssets == ProcessWADAssets \/ CreateAssetGeometry

SpecAssets == InitAssets /\ [][NextAssets]_vars

\* The patch names that have a lump findLump finds.
HasLump(name) == findLump(directory, name, 0).found

\* The PNAMES indices the level's textures use.
UsedPatches(level) == RequiredPatches(level.texture_defs, level.patch_names)

\* C24: after processWAD, position p of the level's patches holds the patch
\* named patch_names[p], for every p a texture uses, whichever patches
\* were required and wherever their lumps lie.
C24_PatchesIndexedByPnames ==
  \A i \in 1..Len(levels) :
    \A p \in UsedPatches(levels[i]) :
      HasLump(levels[i].patch_names[p + 1]) =>
        /\ p < Len(levels[i].patches)
        /\ levels[i].patches[p + 1].name = levels[i].patch_names[p + 1]

\* What holds: the patches collection is dense, one entry per required
\* patch that was found.
C24_PatchesDense ==
  \A i \in 1..Len(levels) :
    LET level == levels[i]
    IN /\ Len(level.patches) <= Cardinality(UsedPatches(level))
       /\ \A k \in 1..Len(level.patches) :
            \E p \in UsedPatches(level) : level.patches[k].name = level.patch_names[p + 1]

\* Both patch lumps present, the texture uses PNAMES index 1 only.
C24_OnlySecondPatchUsed ==
  /\ Len(levels) = 1
  /\ UsedPatches(levels[1]) = {1}
  /\ HasLump(levels[1].patch_names[1]) /\ HasLump(levels[1].patch_names[2])
  /\ Len(levels[1].patches) = 1
  /\ levels[1].patches[1].name = levels[1].patch_names[2]

\* The floor and ceiling texture names of the level's sectors for which the
\* directory holds a lump of 4096 bytes.
FlatLumpNames(level) ==
  {name \in UNION {{trimFixedString(level.sectors[k].floor_texture),
                    trimFixedString(level.sectors[k].ceiling_texture)} :
                     k \in 1..Len(level.sectors)} :
     \E e \in 1..Len(directory) :
       trimFixedString(directory[e].name) = name /\ directory[e].size = TOTAL_PIXELS}

\* C30: after processWAD the level's flats hold an entry for every floor or
\* ceiling texture name that has a 4096-byte flat lump, and after
\* createLevelGeometry a raster is stored under each such name.
C30_FlatsLoadedAndBuilt ==
  /\ \A i \in 1..Len(levels) :
       \A name \in FlatLumpNames(levels[i]) :
         \E k \in 1..Len(levels[i].flats) : flatName(levels[i].flats[k].name) = name
  /\ ret.op = "createLevelGeometry" =>
       \A name \in FlatLumpNames(levels[1]) : name \in DOMAIN textures.store

\* What holds: no level has a flat, and no raster is ever stored under a
\* floor texture name.
C30_NoFlats ==
  /\ \A i \in 1..Len(levels) : levels[i].flats = <<>>
  /\ nFLOOR \notin DOMAIN textures.store

\* The archive holds the flat FLOOR, the sector's floor is FLOOR, and
\* createLevelGeometry has run.
C30_FlatInArchive ==
  /\ ret.op = "createLevelGeometry"
  /\ FlatLumpNames(levels[1]) = {nFLOOR}
  /\ nWALL \in DOMAIN textures.store

====
